---------------------------- MODULE Spec2Model ----------------------------
(***************************************************************************)
(* A model of the logitech-g910-rs keyboard driver: the colour batches     *)
(* (color.rs), the control-packet queue and the colour API (keyboard.rs),  *)
(* the device handle (handle.rs) and the packet parsers (parser.rs).       *)
(*                                                                         *)
(* Bytes are naturals 0..255.  A Vec is a sequence, a HashSet a set, an    *)
(* Option a sequence of length 0 or 1.  A UsbResult is a string: "Ok" or   *)
(* the name of the UsbError; "Panic" stands for an unwinding panic.        *)
(***************************************************************************)
EXTENDS Naturals, Sequences, FiniteSets, TLC

VARIABLES
    control_packet_queue,  \* KeyboardInternal.control_packet_queue
    sending_control,       \* KeyboardInternal.sending_control
    usb_wrapper,           \* Handle.usb_wrapper is Some (TRUE) or None (FALSE)
    reconnect_attempts,    \* KeyboardInternal.reconnect_attempts
    auto_reconnect,        \* KeyboardInternal.auto_reconnect
    panicked,              \* the thread unwound from a panic
    in_flight,             \* control transfers submitted, not yet processed by the device
    completions,           \* completed transfers waiting in the async group
    acks_due,              \* acknowledgements the device has yet to deliver on 0x82
    extra_acks,            \* acknowledgements the device delivered unasked
    pending_reads,         \* the endpoints (0x81, 0x82) with an interrupt read pending
    enq,                   \* history: payloads pushed on the queue, in order
    handed,                \* history: payloads handed to Handle::send_control, in order
    acks_parsed,           \* history: acknowledgements parsed by ControlParser
    outstanding,           \* history: transfers submitted for which no acknowledgement was parsed yet
    faulted,               \* history: a submission failed or the device was replaced
    usb,                   \* history: device handles open and interface sets claimed, and their peaks
    recon,                 \* history: the last KeyboardInternal::reconnect call
    handle_loop,           \* history: start_handle_loop, its turns and what it returned
    arg,                   \* the key_colors argument of the call under study, by category
    ret,                   \* what the last API call returned and did
    pressed_keys,          \* KeyParser.pressed_keys
    pressed_rollover_keys, \* KeyParser.pressed_rollover_keys
    pressed_media_keys,    \* KeyParser.pressed_media_keys
    parsed,                \* what the last KeyParser::parse call saw and returned
    stream_log,            \* history: per stream, the keys last reported pressed and the last report
    probe,                 \* a packet given to a new KeyParser, and what it made of it
    builder,               \* a ColorPacket by itself: its add calls and its encoding
    teardown,              \* a UsbWrapper by itself: the calls of its acquire and of its drop
    handlers,              \* KeyboardImpl.handlers and handler_index
    handler_log,           \* history: the handler calls of the last operation of the loop
    now                    \* the system time

kbVars  == <<control_packet_queue, sending_control, usb_wrapper, reconnect_attempts,
             auto_reconnect, panicked>>
devVars == <<in_flight, completions, acks_due, extra_acks, pending_reads>>
histVars == <<enq, handed, acks_parsed, outstanding, faulted, usb, recon, handle_loop>>
callVars == <<arg, ret>>
keyVars == <<pressed_keys, pressed_rollover_keys, pressed_media_keys, parsed, stream_log>>
handlerVars == <<handlers, handler_log, now>>
unitVars == <<probe, builder, teardown, handlerVars>>
vars == <<kbVars, devVars, histVars, callVars, keyVars, unitVars>>

----------------------------------------------------------------------------
(* Bounds of the model.                                                    *)

\* longest key_colors list given to the set_key_colors call under study
MaxLen == 17
\* most maximal runs of one category in that list
MaxRuns == 3
\* most payloads pushed on the queue in the queue specification
MaxEnqueued == 4
\* most acknowledgements the device delivers unasked
MaxExtraAcks == 1
\* most leading bytes chosen freely in a packet given to a parser by itself
MaxBytes == 4
\* most add calls on a ColorPacket by itself
MaxAdds == 16
\* largest value given to set_reconnect_attempts
MaxAttempts == 3
\* most colour calls made while the event loop is under study
MaxLoopCalls == 2
\* most turns of the event loop in which handle() returns NoDevice, Io or Busy
MaxFailures == 3
\* most handlers registered with add_handler
MaxHandlers == 2
\* the latest time of the system clock
MaxTime == 3

----------------------------------------------------------------------------
(* keys.rs                                                                 *)

KeyType_Standard == 1
KeyType_Gaming == 4
KeyType_Logo == 16

KeyType_id(t) ==
    CASE t = "Standard" -> KeyType_Standard
      [] t = "Gaming" -> KeyType_Gaming
      [] t = "Logo" -> KeyType_Logo

ColorTypes == <<"Standard", "Gaming", "Logo">>

----------------------------------------------------------------------------
(* color.rs                                                                *)

\* a full packet: ColorPacket::add hands it back when one more is added
BatchCap == 14

ColorPacket_new == <<>>

ColorPacket_len(self) == Len(self)

\* ColorPacket::add losing the entry that finds the packet full
ColorPacket_add_dropping(self, key, color) ==
    [asserted |-> Len(self) <= BatchCap,
     self |-> IF Len(self) = BatchCap THEN ColorPacket_new ELSE Append(self, <<key, color>>),
     res |-> IF Len(self) = BatchCap THEN <<self>> ELSE <<>>]

\* ColorPacket::add handing the packet back as soon as it is full
ColorPacket_add_eager(self, key, color) ==
    [asserted |-> Len(self) <= BatchCap,
     self |-> IF Len(self) + 1 = BatchCap THEN ColorPacket_new ELSE Append(self, <<key, color>>),
     res |-> IF Len(self) + 1 = BatchCap THEN <<Append(self, <<key, color>>)>> ELSE <<>>]

\* ColorPacket::add handing the packet back only when it holds 15 entries
ColorPacket_add_cap_15(self, key, color) ==
    [asserted |-> Len(self) <= BatchCap,
     self |-> IF Len(self) = BatchCap + 1
                THEN Append(ColorPacket_new, <<key, color>>)
                ELSE Append(self, <<key, color>>),
     res |-> IF Len(self) = BatchCap + 1 THEN <<self>> ELSE <<>>]

\* ColorPacket::add: asserted is the assert!, self the packet afterwards,
\* res the Option it returns
ColorPacket_add(self, key, color) ==
    [asserted |-> Len(self) <= BatchCap,
     self |-> IF Len(self) = BatchCap
                THEN Append(ColorPacket_new, <<key, color>>)
                ELSE Append(self, <<key, color>>),
     res |-> IF Len(self) = BatchCap THEN <<self>> ELSE <<>>]

\* buf.resize(n, 0), for n up to 64
ZeroBuf == [i \in 1..64 |-> 0]

resize(buf, n) == SubSeq(buf \o ZeroBuf, 1, n)

\* the four bytes written for each (key, color) of the packet, from the i-th on
RECURSIVE write_colors(_, _)
write_colors(colors, i) ==
    IF i > Len(colors) THEN <<>>
    ELSE <<colors[i][1].code, colors[i][2].red, colors[i][2].green, colors[i][2].blue>>
             \o write_colors(colors, i + 1)

ControlPacket_new(buf, endpoint_direction) ==
    [buf |-> buf, endpoint_direction |-> endpoint_direction]

\* to_control_packet writing the key type little-endian
ColorPacket_to_control_packet_le(t, colors) ==
    ControlPacket_new(
        resize(<<18, 255, 15, 59>>
                 \o <<KeyType_id(t) % 256, KeyType_id(t) \div 256>>
                 \o <<0>>
                 \o <<Len(colors) % 256>>
                 \o write_colors(colors, 1), 64),
        128)

\* ColorPacket<T>::to_control_packet, t the key type T
ColorPacket_to_control_packet(t, colors) ==
    ControlPacket_new(
        resize(<<18, 255, 15, 59>>
                 \o <<KeyType_id(t) \div 256, KeyType_id(t) % 256>>
                 \o <<0>>
                 \o <<Len(colors) % 256>>
                 \o write_colors(colors, 1), 64),
        128)

FlushPacket_to_control_packet ==
    ControlPacket_new(resize(<<17, 255, 15, 91>>, 20), 128)

----------------------------------------------------------------------------
(* handle.rs and keyboard.rs: the control queue.  The operators work on a  *)
(* record k of the keyboard and its device; ok is whether the one          *)
(* submission this handler can make is accepted by the host USB library.   *)

\* Handle::send_control
send_control(k, packet, ok) ==
    IF ~k.wrapper
    THEN [k EXCEPT !.handed = Append(@, packet), !.panicked = TRUE, !.res = "Panic"]
    ELSE IF ok
    THEN [k EXCEPT !.handed = Append(@, packet),
                   !.in_flight = Append(@, packet),
                   !.outstanding = @ + 1,
                   !.res = "Ok"]
    ELSE [k EXCEPT !.handed = Append(@, packet), !.faulted = TRUE, !.res = "Io"]

\* send_next_control taking the payload pushed last
send_next_control_lifo(k, ok) ==
    IF Len(k.queue) = 0
    THEN [k EXCEPT !.sending = FALSE, !.res = "Ok"]
    ELSE send_control([k EXCEPT !.sending = TRUE,
                                !.queue = SubSeq(@, 1, Len(@) - 1)],
                      k.queue[Len(k.queue)], ok)

\* send_next_control leaving the flag set when the queue is empty
send_next_control_sticky(k, ok) ==
    IF Len(k.queue) = 0
    THEN [k EXCEPT !.res = "Ok"]
    ELSE send_control([k EXCEPT !.sending = TRUE, !.queue = Tail(@)],
                      Head(k.queue), ok)

\* send_next_control clearing the flag when the submission fails
send_next_control_clearing(k, ok) ==
    IF Len(k.queue) = 0
    THEN [k EXCEPT !.sending = FALSE, !.res = "Ok"]
    ELSE LET r == send_control([k EXCEPT !.sending = TRUE, !.queue = Tail(@)],
                               Head(k.queue), ok)
         IN IF r.res = "Ok" THEN r ELSE [r EXCEPT !.sending = FALSE]

\* KeyboardInternal::send_next_control
send_next_control(k, ok) ==
    IF Len(k.queue) = 0
    THEN [k EXCEPT !.sending = FALSE, !.res = "Ok"]
    ELSE send_control([k EXCEPT !.sending = TRUE, !.queue = Tail(@)],
                      Head(k.queue), ok)

\* queue_control_packet submitting whether or not a transfer is under way
queue_control_packet_eager(k, packet, ok) ==
    send_next_control([k EXCEPT !.queue = Append(@, packet), !.enq = Append(@, packet)], ok)

\* KeyboardInternal::queue_control_packet
queue_control_packet(k, packet, ok) ==
    LET k1 == [k EXCEPT !.queue = Append(@, packet), !.enq = Append(@, packet)]
    IN IF ~k1.sending
       THEN send_next_control(k1, ok)
       ELSE [k1 EXCEPT !.res = "Ok"]

\* KeyboardInternal::send_color
send_color(k, t, colors, ok) ==
    queue_control_packet(k, ColorPacket_to_control_packet(t, colors), ok)

\* KeyboardInternal::flush_color
flush_color(k, ok) ==
    queue_control_packet(k, FlushPacket_to_control_packet, ok)

\* the for loop leaving at a Media key with a break in place of the return
RECURSIVE set_key_colors_loop_break(_, _, _, _)
set_key_colors_loop_break(st, key_colors, i, ok) ==
    IF i > Len(key_colors) \/ st.k.res # "Ok" THEN st
    ELSE LET key_color == key_colors[i]
             t == key_color.key.type
         IN IF t = "Media"
            THEN st
            ELSE LET a == ColorPacket_add(st.packets[t], key_color.key, key_color.color)
                 IN IF ~a.asserted
                    THEN [st EXCEPT !.k.panicked = TRUE, !.k.res = "Panic"]
                    ELSE IF a.res = <<>>
                    THEN set_key_colors_loop_break([st EXCEPT !.packets[t] = a.self],
                                                   key_colors, i + 1, ok)
                    ELSE set_key_colors_loop_break(
                             [st EXCEPT !.packets[t] = a.self,
                                        !.k = send_color(st.k, t, a.res[1], ok)],
                             key_colors, i + 1, ok)

\* the for loop of set_key_colors from its i-th entry on; st.k.res other
\* than "Ok" is an early return
RECURSIVE set_key_colors_loop(_, _, _, _)
set_key_colors_loop(st, key_colors, i, ok) ==
    IF i > Len(key_colors) \/ st.k.res # "Ok" THEN st
    ELSE LET key_color == key_colors[i]
             t == key_color.key.type
         IN IF t = "Media"
            THEN [st EXCEPT !.k.res = "InvalidParam"]
            ELSE LET a == ColorPacket_add(st.packets[t], key_color.key, key_color.color)
                 IN IF ~a.asserted
                    THEN [st EXCEPT !.k.panicked = TRUE, !.k.res = "Panic"]
                    ELSE IF a.res = <<>>
                    THEN set_key_colors_loop([st EXCEPT !.packets[t] = a.self],
                                             key_colors, i + 1, ok)
                    ELSE set_key_colors_loop(
                             [st EXCEPT !.packets[t] = a.self,
                                        !.k = send_color(st.k, t, a.res[1], ok)],
                             key_colors, i + 1, ok)

\* if packet.len() > 0 { try!(self.send_color(packet)); }
send_rest(st, t, ok) ==
    IF st.k.res # "Ok" \/ ColorPacket_len(st.packets[t]) = 0 THEN st
    ELSE [st EXCEPT !.k = send_color(st.k, t, st.packets[t], ok)]

\* the flush left out when no transfer is under way
flush_rest_skipping_idle(st, ok) ==
    IF st.k.res # "Ok" \/ ~st.k.sending THEN st ELSE [st EXCEPT !.k = flush_color(st.k, ok)]

\* self.flush_color()
flush_rest(st, ok) ==
    IF st.k.res # "Ok" THEN st ELSE [st EXCEPT !.k = flush_color(st.k, ok)]

\* set_key_colors sending the gaming packet ahead of the standard one
set_key_colors_gaming_first(k, key_colors, ok) ==
    flush_rest(
        send_rest(
            send_rest(
                send_rest(
                    set_key_colors_loop(
                        [k |-> [k EXCEPT !.res = "Ok"],
                         packets |-> [Standard |-> ColorPacket_new,
                                      Gaming |-> ColorPacket_new,
                                      Logo |-> ColorPacket_new]],
                        key_colors, 1, ok),
                    "Gaming", ok),
                "Standard", ok),
            "Logo", ok),
        ok)

\* KeyboardInternal::set_key_colors: the keyboard afterwards (k) and the
\* three packets as they are when the call returns
set_key_colors(k, key_colors, ok) ==
    flush_rest(
        send_rest(
            send_rest(
                send_rest(
                    set_key_colors_loop(
                        [k |-> [k EXCEPT !.res = "Ok"],
                         packets |-> [Standard |-> ColorPacket_new,
                                      Gaming |-> ColorPacket_new,
                                      Logo |-> ColorPacket_new]],
                        key_colors, 1, ok),
                    "Standard", ok),
                "Gaming", ok),
            "Logo", ok),
        ok)

----------------------------------------------------------------------------
(* parser.rs.  buf[i] of the source is buf[i + 1] here.                    *)

\* a & b on bytes
RECURSIVE BitAnd(_, _)
BitAnd(a, b) ==
    IF a = 0 \/ b = 0 THEN 0
    ELSE (a % 2) * (b % 2) + 2 * BitAnd(a \div 2, b \div 2)

\* Packet::new
Packet_new(endpoint_direction, buf) ==
    [endpoint |-> BitAnd(endpoint_direction, 127), buf |-> buf]

\* the wire bytes of the StandardKey variants other than None
StandardKey_values == (4..101) \cup (135..139) \cup (224..231)

\* StandardKey::from(u8): the wire byte of the variant, 0 for StandardKey::None
StandardKey_from(u) == IF u \in StandardKey_values THEN u ELSE 0

\* LeftControl .. RightWindows, in the order of the bits of the modifier byte
ModifierKeys == <<224, 225, 226, 227, 228, 229, 230, 231>>

ModifierMasks == <<1, 2, 4, 8, 16, 32, 64, 128>>

\* MediaKey::values(), as wire bytes
MediaKey_values == <<1, 2, 4>>

Key_Standard(code) == [type |-> "Standard", code |-> code]

Key_Media(code) == [type |-> "Media", code |-> code]

\* accept testing the first byte of a standard report
KeyParser_accept_first_byte(packet) ==
    \/ Len(packet.buf) = 8 /\ packet.endpoint = 1 /\ packet.buf[1] = 0
    \/ Len(packet.buf) = 21 /\ packet.endpoint = 2 /\ packet.buf[1] = 1
    \/ Len(packet.buf) = 2 /\ packet.endpoint = 2 /\ packet.buf[1] = 2

\* KeyParser::accept
KeyParser_accept(packet) ==
    \/ Len(packet.buf) = 8 /\ packet.endpoint = 1 /\ packet.buf[2] = 0
    \/ Len(packet.buf) = 21 /\ packet.endpoint = 2 /\ packet.buf[1] = 1
    \/ Len(packet.buf) = 2 /\ packet.endpoint = 2 /\ packet.buf[1] = 2

\* parse reading the media bitmap from the first byte
KeyParser_state_media_first_byte(packet) ==
    LET media == packet.endpoint = 2 /\ packet.buf[1] = 2
        standard == packet.endpoint = 1
        rollover == packet.endpoint = 2 /\ packet.buf[1] = 1
    IN (IF media
        THEN {Key_Media(MediaKey_values[i]) :
                i \in {j \in 1..Len(MediaKey_values) :
                         BitAnd(packet.buf[1], MediaKey_values[j]) = MediaKey_values[j]}}
        ELSE {})
       \cup
       (IF standard \/ rollover
        THEN {Key_Standard(StandardKey_from(packet.buf[i])) :
                i \in {j \in 2..Len(packet.buf) : StandardKey_from(packet.buf[j]) # 0}}
        ELSE {})
       \cup
       (IF standard
        THEN {Key_Standard(ModifierKeys[i]) :
                i \in {j \in 1..8 : BitAnd(packet.buf[1], ModifierMasks[j]) = ModifierMasks[j]}}
        ELSE {})

\* parse reading a modifier bitmap from rollover reports too
KeyParser_state_rollover_modifiers(packet) ==
    LET media == packet.endpoint = 2 /\ packet.buf[1] = 2
        standard == packet.endpoint = 1
        rollover == packet.endpoint = 2 /\ packet.buf[1] = 1
    IN (IF media
        THEN {Key_Media(MediaKey_values[i]) :
                i \in {j \in 1..Len(MediaKey_values) :
                         BitAnd(packet.buf[2], MediaKey_values[j]) = MediaKey_values[j]}}
        ELSE {})
       \cup
       (IF standard \/ rollover
        THEN {Key_Standard(StandardKey_from(packet.buf[i])) :
                i \in {j \in 2..Len(packet.buf) : StandardKey_from(packet.buf[j]) # 0}}
        ELSE {})
       \cup
       (IF standard \/ rollover
        THEN {Key_Standard(ModifierKeys[i]) :
                i \in {j \in 1..8 : BitAnd(packet.buf[1], ModifierMasks[j]) = ModifierMasks[j]}}
        ELSE {})

\* KeyParser::parse: the set state decoded from an accepted packet
KeyParser_state(packet) ==
    LET media == packet.endpoint = 2 /\ packet.buf[1] = 2
        standard == packet.endpoint = 1
        rollover == packet.endpoint = 2 /\ packet.buf[1] = 1
    IN (IF media
        THEN {Key_Media(MediaKey_values[i]) :
                i \in {j \in 1..Len(MediaKey_values) :
                         BitAnd(packet.buf[2], MediaKey_values[j]) = MediaKey_values[j]}}
        ELSE {})
       \cup
       (IF standard \/ rollover
        THEN {Key_Standard(StandardKey_from(packet.buf[i])) :
                i \in {j \in 2..Len(packet.buf) : StandardKey_from(packet.buf[j]) # 0}}
        ELSE {})
       \cup
       (IF standard
        THEN {Key_Standard(ModifierKeys[i]) :
                i \in {j \in 1..8 : BitAnd(packet.buf[1], ModifierMasks[j]) = ModifierMasks[j]}}
        ELSE {})

\* one pressed set for the standard and the rollover reports
KeyParser_old_state_shared(packet) ==
    IF packet.endpoint = 1 THEN "standard"
    ELSE IF packet.endpoint = 2 /\ packet.buf[1] = 1 THEN "standard"
    ELSE "media"

\* KeyParser::parse: which of the three sets is old_state
KeyParser_old_state(packet) ==
    IF packet.endpoint = 1 THEN "standard"
    ELSE IF packet.endpoint = 2 /\ packet.buf[1] = 1 THEN "rollover"
    ELSE "media"

\* every key of the old state released, the ones still held too
KeyParser_diff_release_all(state, old_state) ==
    [added |-> state \ old_state, removed |-> old_state]

\* every key of the state reported pressed, the ones already held too
KeyParser_diff_press_all(state, old_state) ==
    [added |-> state, removed |-> old_state \ state]

\* KeyParser::parse: added and removed
KeyParser_diff(state, old_state) ==
    [added |-> state \ old_state, removed |-> old_state \ state]

\* the orders in which a HashSet can be iterated
Orderings(S) ==
    {q \in [1..Cardinality(S) -> S] : \A i, j \in 1..Cardinality(S) : q[i] = q[j] => i = j}

KeyEvent_KeyPressed(q) == [i \in 1..Len(q) |-> [event |-> "KeyPressed", key |-> q[i]]]

KeyEvent_KeyReleased(q) == [i \in 1..Len(q) |-> [event |-> "KeyReleased", key |-> q[i]]]

RECURSIVE LastPressed(_, _)
\* the keys whose last event is KeyPressed after the events of a parse,
\* when they were the keys of held before
LastPressed(key_events, held) ==
    IF key_events = <<>>
    THEN held
    ELSE LastPressed(Tail(key_events),
                     IF Head(key_events).event = "KeyPressed"
                     THEN held \cup {Head(key_events).key}
                     ELSE held \ {Head(key_events).key})

\* ControlParser::accept that takes every packet of endpoint 0 or 2
ControlParser_accept_endpoint(packet) == packet.endpoint \in {0, 2}

\* ControlParser::accept
ControlParser_accept(packet) ==
    \/ (Len(packet.buf) = 20 \/ Len(packet.buf) = 64) /\ packet.endpoint = 0
    \/ Len(packet.buf) = 20 /\ packet.endpoint = 2 /\ packet.buf[1] = 17

\* ControlParser::parse
ControlParser_parse(k, packet, ok) ==
    IF Len(packet.buf) = 0 THEN [k EXCEPT !.res = "Ok"]
    ELSE IF packet.endpoint = 0 /\ ~(packet.buf[1] = 17 \/ packet.buf[1] = 18)
    THEN [k EXCEPT !.res = "NotSupported"]
    ELSE IF packet.endpoint = 2 /\ ~(packet.buf[1] = 17)
    THEN [k EXCEPT !.res = "NotSupported"]
    ELSE IF packet.endpoint = 2
    THEN send_next_control(
             [k EXCEPT !.acks_parsed = @ + 1,
                       !.outstanding = IF @ > 0 THEN @ - 1 ELSE 0], ok)
    ELSE [k EXCEPT !.res = "Ok"]

\* KeyboardImpl::new: the parsers, in the order of their insertion
Parsers == <<"ParseKey", "ParseControl">>

\* accept of the parser in a match arm of KeyboardImpl::handle
Parser_accept(parser, packet) ==
    IF parser = "ParseKey" THEN KeyParser_accept(packet) ELSE ControlParser_accept(packet)

\* the parsers whose parse KeyboardImpl::handle calls for a packet while no
\* parse returns an error, in the order of the calls; order is the order in
\* which the HashMap iterates the parsers
parsers_invoked(packet, order) ==
    LET Accepts(parser) == Parser_accept(parser, packet)
    IN SelectSeq(order, Accepts)

----------------------------------------------------------------------------
(* handle.rs and keyboard.rs: the event loop.                              *)

\* Drop for UsbWrapper: the interfaces are released, then the async group
\* (with its transfers), the device handle and the context are dropped
UsbWrapper_drop(k) ==
    [k EXCEPT !.usb.claimed = @ - 1,
              !.usb.handles = @ - 1,
              !.in_flight = <<>>,
              !.completions = <<>>,
              !.pending_reads = {},
              !.acks_due = 0]

\* UsbWrapper::new; outcome is what the host says: "Ok", "NoDevice" when
\* get_handle finds no device, "Access" when open fails, "Busy" when the
\* device is opened and claim_interface fails, which drops the new handle
UsbWrapper_new(k, outcome) ==
    LET opened == [k EXCEPT !.usb.held_at_open =
                                IF k.usb.handles + k.usb.claimed > @
                                THEN k.usb.handles + k.usb.claimed ELSE @,
                            !.usb.handles = @ + 1,
                            !.usb.peak_handles =
                                IF k.usb.handles + 1 > @ THEN k.usb.handles + 1 ELSE @]
    IN IF outcome = "Ok"
       THEN [opened EXCEPT !.usb.claimed = @ + 1,
                           !.usb.peak_claimed =
                               IF k.usb.claimed + 1 > @ THEN k.usb.claimed + 1 ELSE @,
                           !.wrapper = TRUE,
                           !.res = "Ok"]
       ELSE IF outcome = "Busy"
       THEN [opened EXCEPT !.usb.handles = @ - 1, !.wrapper = FALSE, !.res = "Busy"]
       ELSE [k EXCEPT !.wrapper = FALSE, !.res = outcome]

\* Handle::reconnect opening the new wrapper over the old one
Handle_reconnect_keep_old(k, outcome) ==
    [UsbWrapper_new(k, outcome) EXCEPT !.faulted = TRUE]

\* Handle::reconnect: the old wrapper, if any, is dropped, then a new one is
\* made; outcome is the result of that UsbWrapper::new
Handle_reconnect(k, outcome) ==
    [UsbWrapper_new(IF k.wrapper THEN UsbWrapper_drop(k) ELSE k, outcome)
        EXCEPT !.faulted = TRUE]

\* what the j-th UsbWrapper::new of a reconnect call meets: o[j], and the
\* last of o from then on
Outcome(o, j) == IF j <= Len(o) THEN o[j] ELSE o[Len(o)]

RECURSIVE reconnect_for_first_err(_, _, _, _)
\* the loop of reconnect keeping the error of the first attempt
reconnect_for_first_err(k, o, j, last_err) ==
    IF j > k.reconnect_attempts
    THEN [k EXCEPT !.res = last_err]
    ELSE LET r == Handle_reconnect(k, Outcome(o, j))
             r1 == [r EXCEPT !.recon.tries = Append(@, r.res)]
         IN IF r.res = "Ok"
            THEN r1
            ELSE reconnect_for_first_err(r1, o, j + 1, IF j = 1 THEN r.res ELSE last_err)

RECURSIVE reconnect_for(_, _, _, _)
\* the for loop of KeyboardInternal::reconnect from its j-th turn on
reconnect_for(k, o, j, last_err) ==
    IF j > k.reconnect_attempts
    THEN [k EXCEPT !.res = last_err]
    ELSE LET r == Handle_reconnect(k, Outcome(o, j))
             r1 == [r EXCEPT !.recon.tries = Append(@, r.res)]
         IN IF r.res = "Ok"
            THEN r1
            ELSE reconnect_for(r1, o, j + 1, r.res)

\* KeyboardInternal::reconnect; o is what its attempts meet
KeyboardInternal_reconnect(k, o) ==
    LET r == reconnect_for(
                 [k EXCEPT !.recon = [attempts |-> k.reconnect_attempts, outcomes |-> o,
                                      tries |-> <<>>, res |-> "none", reads |-> {}]],
                 o, 1, "NoDevice")
    IN [r EXCEPT !.recon.res = r.res, !.recon.reads = r.pending_reads]

\* the transfers of the async group on an endpoint: the read pending on it
\* and the completed ones waiting to be returned by recv
Transfers(k, endpoint_direction) ==
    (IF endpoint_direction \in k.pending_reads THEN 1 ELSE 0)
    + Cardinality({n \in 1..Len(k.completions) :
                      k.completions[n].endpoint_direction = endpoint_direction})

\* Handle::recv when try_wait_any returns the i-th completed transfer with
\* the given status; resub_ok is whether its resubmission is accepted
Handle_recv(k, i, status, resub_ok) ==
    LET transfer == k.completions[i]
        k1 == [k EXCEPT !.completions =
                   SubSeq(@, 1, i - 1) \o SubSeq(@, i + 1, Len(@))]
        r == IF status # "Ok"
             THEN [k1 EXCEPT !.res = status]
             ELSE IF transfer.endpoint_direction # 128
             THEN IF resub_ok
                  THEN [k1 EXCEPT !.pending_reads = @ \cup {transfer.endpoint_direction},
                                  !.res = "Ok"]
                  ELSE [k1 EXCEPT !.res = "Io"]
             ELSE [k1 EXCEPT !.res = "Ok"]
    IN [r EXCEPT !.handle_loop.recv =
                     [res |-> r.res, endpoint_direction |-> transfer.endpoint_direction,
                      resubmitted |-> r.pending_reads # k.pending_reads,
                      transfers |-> [e \in {129, 130} |-> Transfers(r, e)]]]

\* the match of start_handle_loop reconnecting on every error
start_handle_loop_match_any(k, o) ==
    IF k.res = "Ok"
    THEN k
    ELSE LET r == KeyboardInternal_reconnect([k EXCEPT !.handle_loop.reconnects = @ + 1], o)
         IN IF r.res = "Ok" THEN r ELSE [r EXCEPT !.handle_loop.ret = r.res]

\* the match of start_handle_loop reconnecting only when auto_reconnect is set
start_handle_loop_match_auto(k, o) ==
    IF k.res = "Ok"
    THEN k
    ELSE IF k.res \in {"NoDevice", "Io", "Busy"} /\ k.auto_reconnect
    THEN LET r == KeyboardInternal_reconnect([k EXCEPT !.handle_loop.reconnects = @ + 1], o)
         IN IF r.res = "Ok" THEN r ELSE [r EXCEPT !.handle_loop.ret = r.res]
    ELSE [k EXCEPT !.handle_loop.ret = k.res]

\* the match of start_handle_loop on what handle() returned
start_handle_loop_match(k, o) ==
    IF k.res = "Ok"
    THEN k
    ELSE IF k.res \in {"NoDevice", "Io", "Busy"}
    THEN LET r == KeyboardInternal_reconnect([k EXCEPT !.handle_loop.reconnects = @ + 1], o)
         IN IF r.res = "Ok" THEN r ELSE [r EXCEPT !.handle_loop.ret = r.res]
    ELSE [k EXCEPT !.handle_loop.ret = k.res]

----------------------------------------------------------------------------
(* utils.rs: the calls get_handle and the Drop of UsbWrapper make on the   *)
(* device handle.  env gives what the host answers: active[i] is what      *)
(* kernel_driver_active(i) returns ("yes", "no", "err"), failing the calls *)
(* <<op, iface>> that return an error.                                     *)

Call(op, iface, env) == [op |-> op, iface |-> iface, ok |-> <<op, iface>> \notin env.failing]

\* detach(handle, iface) after the calls w.calls
detach(w, iface, env) ==
    IF env.active[iface] = "yes"
    THEN LET c == Call("detach_kernel_driver", iface, env)
         IN [w EXCEPT !.calls = Append(@, c),
                      !.res = IF c.ok THEN "Ok" ELSE "Io",
                      !.detached = c.ok]
    ELSE [w EXCEPT !.res = "Ok", !.detached = FALSE]

\* a call of the device handle made with try!
try(w, op, iface, env) ==
    LET c == Call(op, iface, env)
    IN [w EXCEPT !.calls = Append(@, c), !.res = IF c.ok THEN "Ok" ELSE "Io"]

\* get_handle from d.open() on, the device being found and opened
get_handle(env) ==
    LET w0 == [calls |-> <<>>, res |-> "Ok", detached |-> FALSE,
               has_kernel_driver0 |-> FALSE, has_kernel_driver1 |-> FALSE]
        d0 == detach(w0, 0, env)
        w1 == [d0 EXCEPT !.has_kernel_driver0 = d0.detached]
        d1 == detach(w1, 1, env)
        w2 == [d1 EXCEPT !.has_kernel_driver1 = d1.detached]
        c0 == try(w2, "claim_interface", 0, env)
        c1 == try(c0, "claim_interface", 1, env)
        r == try(c1, "reset", 0, env)
    IN IF d0.res # "Ok" THEN d0
       ELSE IF d1.res # "Ok" THEN d1
       ELSE IF c0.res # "Ok" THEN c0
       ELSE IF c1.res # "Ok" THEN c1
       ELSE r

\* the calls Drop makes with unwrap_safe!, in order
DropSteps(w) ==
    <<<<"release_interface", 1>>, <<"release_interface", 0>>>>
      \o (IF w.has_kernel_driver1 THEN <<<<"attach_kernel_driver", 1>>>> ELSE <<>>)
      \o (IF w.has_kernel_driver0 THEN <<<<"attach_kernel_driver", 0>>>> ELSE <<>>)

RECURSIVE unwrap_safe_try(_, _, _)
\* the calls of Drop made with try! instead of unwrap_safe!
unwrap_safe_try(steps, n, env) ==
    IF n > Len(steps)
    THEN <<>>
    ELSE LET c == Call(steps[n][1], steps[n][2], env)
         IN IF c.ok THEN <<c>> \o unwrap_safe_try(steps, n + 1, env) ELSE <<c>>

RECURSIVE unwrap_safe(_, _, _)
\* the calls of Drop from its n-th step on: an error is printed and the
\* next step runs
unwrap_safe(steps, n, env) ==
    IF n > Len(steps)
    THEN <<>>
    ELSE <<Call(steps[n][1], steps[n][2], env)>> \o unwrap_safe(steps, n + 1, env)

\* Drop for UsbWrapper: the calls on the device handle before it is freed
Drop_for_UsbWrapper(w, env) == unwrap_safe(DropSteps(w), 1, env)

----------------------------------------------------------------------------
(* event.rs and keyboard.rs: the handlers.  A handler h is a record: its   *)
(* accept_key function accepts the events of the keys in h.accepts, its    *)
(* handle_time function, if it has one, has the period h.period (an        *)
(* Option) and was last called at the time h.last_called.  hs has the      *)
(* handlers by index + 1, order the indices in the order in which the      *)
(* HashMap iterates them.  failing are the indices of the handlers whose   *)
(* function returns the error err, t is the time of the system clock.      *)

\* Duration::from_secs(3600*24*365)
Year == 31536000

Min(S) == CHOOSE x \in S : \A y \in S : x <= y

\* a call of a function of a handler: the function, the index of the
\* handler, what the function is called with besides the keyboard, and
\* what it returns
HandlerCall(fn, index, a, res) == [fn |-> fn, index |-> index, with |-> a, res |-> res]

\* what the function of a handler returns
HandlerResult(index, failing, err) == IF index \in failing THEN err ELSE "Ok"

\* HandlerBuilder::handle_time_fn and build: the handler
HandlerBuilder_build(accepts, period, t) ==
    [accepts |-> accepts, period |-> period, last_called |-> t]

\* HandlerBuilder::accept_key
accept_key(h, key_event) == key_event.key \in h.accepts

\* HandlerBuilder::sleep_duration
sleep_duration(h, t) ==
    IF h.period = <<>>
    THEN <<>>
    ELSE LET dur == h.period[1]
             elapsed == t - h.last_called
         IN IF elapsed > dur THEN <<0>> ELSE <<dur - elapsed>>

\* HandlerBuilder::handle_time that leaves last_called alone
handle_time_keep(h, t) == h

\* HandlerBuilder::handle_time: the handler after the call, whatever the
\* function returned
handle_time(h, t) ==
    IF h.period = <<>> THEN h ELSE [h EXCEPT !.last_called = t]

\* KeyboardImpl::add_handler; order is how the map iterates from now on
add_handler(hd, handler, order) ==
    [handler_index |-> hd.handler_index + 1,
     order |-> order,
     rec |-> Append(hd.rec, handler)]

\* the timeout of recv in KeyboardImpl::handle
timeout(hs, t) ==
    LET ds == {sleep_duration(hs[n], t)[1] :
                  n \in {m \in 1..Len(hs) : sleep_duration(hs[m], t) # <<>>}}
    IN IF ds = {} THEN Year ELSE Min(ds)

RECURSIVE init_handlers(_, _, _, _)
\* the loop over the handlers in start_handle_loop, from the n-th of the
\* iteration
init_handlers(order, n, failing, err) ==
    IF n > Len(order)
    THEN [res |-> "Ok", log |-> <<>>]
    ELSE LET call == HandlerCall("init", order[n], <<>>,
                                HandlerResult(order[n], failing, err))
         IN IF order[n] \in failing
            THEN [res |-> err, log |-> <<call>>]
            ELSE LET rest == init_handlers(order, n + 1, failing, err)
                 IN [rest EXCEPT !.log = <<call>> \o @]

RECURSIVE handle_key(_, _, _, _, _, _)
\* the loop over the handlers for one key event in KeyboardImpl::handle
handle_key(hs, order, n, key_event, failing, err) ==
    IF n > Len(order)
    THEN [res |-> "Ok", log |-> <<>>]
    ELSE IF ~accept_key(hs[order[n] + 1], key_event)
    THEN handle_key(hs, order, n + 1, key_event, failing, err)
    ELSE LET call == HandlerCall("handle_key", order[n], key_event,
                                HandlerResult(order[n], failing, err))
         IN IF order[n] \in failing
            THEN [res |-> err, log |-> <<call>>]
            ELSE LET rest == handle_key(hs, order, n + 1, key_event, failing, err)
                 IN [rest EXCEPT !.log = <<call>> \o @]

RECURSIVE handle_key_events(_, _, _, _, _, _)
\* the loop over the key events of a packet in KeyboardImpl::handle
handle_key_events(hs, order, key_events, m, failing, err) ==
    IF m > Len(key_events)
    THEN [res |-> "Ok", log |-> <<>>]
    ELSE LET one == handle_key(hs, order, 1, key_events[m], failing, err)
         IN IF one.res # "Ok"
            THEN one
            ELSE LET rest == handle_key_events(hs, order, key_events, m + 1, failing, err)
                 IN [rest EXCEPT !.log = one.log \o @]

RECURSIVE handle_times(_, _, _, _, _, _)
\* the loop over the handlers after a timeout of recv in KeyboardImpl::handle
handle_times(hs, order, n, t, failing, err) ==
    IF n > Len(order)
    THEN [res |-> "Ok", hs |-> hs, log |-> <<>>]
    ELSE LET index == order[n]
             h == hs[index + 1]
         IN IF sleep_duration(h, t) # <<0>>
            THEN handle_times(hs, order, n + 1, t, failing, err)
            ELSE LET call == HandlerCall("handle_time", index, t - h.last_called,
                                     HandlerResult(index, failing, err))
                     after == [hs EXCEPT ![index + 1] = handle_time(h, t)]
                 IN IF index \in failing
                    THEN [res |-> err, hs |-> after, log |-> <<call>>]
                    ELSE LET rest == handle_times(after, order, n + 1, t, failing, err)
                         IN [rest EXCEPT !.log = <<call>> \o @]

----------------------------------------------------------------------------
(* The state as a record, and back.                                        *)

Kb ==
    [queue |-> control_packet_queue, sending |-> sending_control,
     wrapper |-> usb_wrapper, panicked |-> panicked, in_flight |-> in_flight,
     completions |-> completions, acks_due |-> acks_due,
     pending_reads |-> pending_reads,
     enq |-> enq, handed |-> handed, acks_parsed |-> acks_parsed,
     outstanding |-> outstanding, faulted |-> faulted,
     reconnect_attempts |-> reconnect_attempts, auto_reconnect |-> auto_reconnect,
     usb |-> usb, recon |-> recon,
     handle_loop |-> handle_loop, res |-> "Ok"]

SetKb(k) ==
    /\ control_packet_queue' = k.queue
    /\ sending_control' = k.sending
    /\ usb_wrapper' = k.wrapper
    /\ panicked' = k.panicked
    /\ in_flight' = k.in_flight
    /\ completions' = k.completions
    /\ acks_due' = k.acks_due
    /\ pending_reads' = k.pending_reads
    /\ enq' = k.enq
    /\ handed' = k.handed
    /\ acks_parsed' = k.acks_parsed
    /\ outstanding' = k.outstanding
    /\ faulted' = k.faulted
    /\ reconnect_attempts' = k.reconnect_attempts
    /\ auto_reconnect' = k.auto_reconnect
    /\ usb' = k.usb
    /\ recon' = k.recon
    /\ handle_loop' = k.handle_loop

NoCall == [op |-> "none", res |-> "Ok", enqueued |-> <<>>,
           packets |-> [Standard |-> <<>>, Gaming |-> <<>>, Logo |-> <<>>]]

NoParse ==
    [old_state |-> "none", packet |-> [endpoint |-> 0, buf |-> <<>>],
     prior |-> [standard |-> {}, rollover |-> {}, media |-> {}],
     state |-> {}, events |-> <<>>, last_pressed |-> {}, previous |-> <<>>]

\* KeyParser::new: no stream has reported a key or sent a report
NoStreamLog ==
    [stream \in {"standard", "rollover", "media"} |-> [last_pressed |-> {}, report |-> <<>>]]

\* Handle::new has opened the device and claimed its interfaces once
NewUsb == [handles |-> 1, claimed |-> 1, peak_handles |-> 1, peak_claimed |-> 1,
           held_at_open |-> 0]

NoRecon == [attempts |-> 0, outcomes |-> <<>>, tries |-> <<>>, res |-> "none", reads |-> {}]

NoRecv == [res |-> "none", endpoint_direction |-> 0, resubmitted |-> FALSE,
           transfers |-> [e \in {129, 130} |-> 1]]

\* start_handle_loop has not been called
NoLoop == [ret |-> "none", err |-> "none", failures |-> 0, reconnects |-> 0, recv |-> NoRecv]

\* no UsbWrapper is under study
NoTeardown ==
    [phase |-> "none", active |-> <<>>, acquire |-> <<>>, res |-> "none",
     has_kernel_driver0 |-> FALSE, has_kernel_driver1 |-> FALSE, drop |-> <<>>]

\* KeyboardImpl::new: no handler is registered
NoHandlers == [handler_index |-> 0, order |-> <<>>, rec |-> <<>>]

NoProbe ==
    [buf |-> <<>>, applied |-> FALSE, packet |-> [endpoint |-> 0, buf |-> <<>>],
     accept |-> FALSE, state |-> {}, accept_control |-> FALSE, invoked |-> {}]

NoBuilder ==
    [t |-> "none", packet |-> ColorPacket_new, adds |-> <<>>, asserted |-> TRUE,
     res |-> <<>>, encoded |-> <<>>]

InitKeyboard ==
    /\ control_packet_queue = <<>>
    /\ sending_control = FALSE
    /\ usb_wrapper = TRUE
    /\ panicked = FALSE
    /\ in_flight = <<>>
    /\ completions = <<>>
    /\ acks_due = 0
    /\ extra_acks = 0
    /\ pending_reads = {129, 130}
    /\ enq = <<>>
    /\ handed = <<>>
    /\ acks_parsed = 0
    /\ outstanding = 0
    /\ faulted = FALSE
    /\ reconnect_attempts = 10
    /\ auto_reconnect = TRUE
    /\ usb = NewUsb
    /\ recon = NoRecon
    /\ handle_loop = NoLoop
    /\ arg = <<>>
    /\ ret = NoCall
    /\ pressed_keys = {}
    /\ pressed_rollover_keys = {}
    /\ pressed_media_keys = {}
    /\ parsed = NoParse
    /\ stream_log = NoStreamLog
    /\ probe = NoProbe
    /\ builder = NoBuilder
    /\ teardown = NoTeardown
    /\ handlers = NoHandlers
    /\ handler_log = <<>>
    /\ now = 0

----------------------------------------------------------------------------
(* The set_key_colors call under study.  Its argument is a list of at most *)
(* MaxLen entries in at most MaxRuns runs of one category each; the entry  *)
(* at position i has red = i, so that every entry can be told apart.       *)

Cats == {"Standard", "Gaming", "Logo", "Media"}

\* a key of each category: StandardKey::A, GamingKey::G1, Logo::G, a media key
KeyOf(cat) ==
    [type |-> cat, code |-> IF cat = "Standard" THEN 4 ELSE 1]

\* the number of maximal runs of one category in a list of categories
RECURSIVE Runs(_)
Runs(cats) ==
    IF Len(cats) <= 1 THEN Len(cats)
    ELSE Runs(Tail(cats)) + (IF cats[1] = cats[2] THEN 0 ELSE 1)

\* the Vec<KeyColor> whose keys have the categories cats
KeyColors(cats) ==
    [i \in 1..Len(cats) |->
        [key |-> KeyOf(cats[i]), color |-> [red |-> i, green |-> 0, blue |-> 0]]]

\* a call of KeyboardImpl::set_key_colors; ret records it under the name op
Call_set_key_colors(op, key_colors, ok) ==
    /\ ~panicked
    /\ \E st \in {set_key_colors(Kb, key_colors, ok)} :
          /\ SetKb(st.k)
          /\ ret' = [op |-> op, res |-> st.k.res,
                     enqueued |-> SubSeq(st.k.enq, Len(enq) + 1, Len(st.k.enq)),
                     packets |-> st.packets]
    /\ UNCHANGED <<extra_acks, keyVars, unitVars>>

\* the caller pushes one more KeyColor on the list it is going to pass
\* (two media keys are never adjacent in it)
PushKeyColor(cat) ==
    /\ ret.op # "set_key_colors"
    /\ Len(arg) < MaxLen
    /\ IF cat = "Media" /\ Len(arg) > 0 THEN arg[Len(arg)] # "Media" ELSE TRUE
    /\ Runs(Append(arg, cat)) <= MaxRuns
    /\ arg' = Append(arg, cat)
    /\ UNCHANGED <<kbVars, devVars, histVars, ret, keyVars, unitVars>>

\* an earlier call, set_key_colors(vec![]), whose Flush the device has taken
\* and not yet acknowledged: the call under study then finds the queue busy
EarlierCall ==
    /\ ret.op = "none"
    /\ arg = <<>>
    /\ Call_set_key_colors("earlier", <<>>, TRUE)
    /\ UNCHANGED arg

\* the call under study: set_key_colors(arg)
CallSetKeyColors(ok) ==
    /\ ret.op # "set_key_colors"
    /\ Call_set_key_colors("set_key_colors", KeyColors(arg), ok)
    /\ UNCHANGED arg

NextColors ==
    \/ \E cat \in Cats : PushKeyColor(cat)
    \/ EarlierCall
    \/ \E ok \in BOOLEAN : CallSetKeyColors(ok)

SpecColors == InitKeyboard /\ [][NextColors]_vars

----------------------------------------------------------------------------
(* The device and the event loop.                                          *)

\* the acknowledgement of a control transfer, read on endpoint 0x82
AckBuf == resize(<<17>>, 20)

Completed(endpoint_direction, buf) ==
    [buf |-> buf, endpoint_direction |-> endpoint_direction]

\* the device takes the oldest control transfer, which completes
DeviceProcess ==
    /\ in_flight # <<>>
    /\ in_flight' = Tail(in_flight)
    /\ completions' = Append(completions,
                             Completed(Head(in_flight).endpoint_direction, Head(in_flight).buf))
    /\ acks_due' = acks_due + 1
    /\ UNCHANGED <<kbVars, extra_acks, pending_reads, histVars, callVars, keyVars, unitVars>>

\* the device completes the read pending on an endpoint
Deliver(endpoint_direction, buf) ==
    /\ endpoint_direction \in pending_reads
    /\ pending_reads' = pending_reads \ {endpoint_direction}
    /\ completions' = Append(completions, Completed(endpoint_direction, buf))

\* the device acknowledges a control transfer it has taken
DeviceAck ==
    /\ acks_due > 0
    /\ Deliver(130, AckBuf)
    /\ acks_due' = acks_due - 1
    /\ UNCHANGED <<kbVars, in_flight, extra_acks, histVars, callVars, keyVars, unitVars>>

\* the device sends an acknowledgement nothing asked for
DeviceExtraAck ==
    /\ extra_acks < MaxExtraAcks
    /\ Deliver(130, AckBuf)
    /\ extra_acks' = extra_acks + 1
    /\ UNCHANGED <<kbVars, in_flight, acks_due, histVars, callVars, keyVars, unitVars>>

\* the device sends an input report
DeviceReport(endpoint_direction, buf) ==
    /\ Deliver(endpoint_direction, buf)
    /\ UNCHANGED <<kbVars, in_flight, acks_due, extra_acks, histVars, callVars, keyVars, unitVars>>

\* KeyParser::parse on an accepted packet: the pressed sets and the events
ParseKey(packet) ==
    LET state == KeyParser_state(packet)
        stream == KeyParser_old_state(packet)
        prior == [standard |-> pressed_keys, rollover |-> pressed_rollover_keys,
                  media |-> pressed_media_keys]
        d == KeyParser_diff(state, prior[stream])
    IN /\ pressed_keys' = IF stream = "standard" THEN state ELSE pressed_keys
       /\ pressed_rollover_keys' =
             IF stream = "rollover" THEN state ELSE pressed_rollover_keys
       /\ pressed_media_keys' = IF stream = "media" THEN state ELSE pressed_media_keys
       /\ \E added \in Orderings(d.added), removed \in Orderings(d.removed) :
             /\ parsed' = [old_state |-> stream, packet |-> packet, prior |-> prior,
                           state |-> state,
                           events |-> KeyEvent_KeyPressed(added) \o KeyEvent_KeyReleased(removed),
                           last_pressed |-> stream_log[stream].last_pressed,
                           previous |-> stream_log[stream].report]
             /\ stream_log' = [stream_log EXCEPT
                                 ![stream] = [last_pressed |-> LastPressed(parsed'.events, @.last_pressed),
                                              report |-> <<packet.buf>>]]

\* the indices of the registered handlers
Registered == {index \in 0..handlers.handler_index : index < handlers.handler_index}

\* KeyboardImpl::add_handler, called by the user of the keyboard before the
\* loop is started; the handler was built at the same time
AddHandler(accepts, period) ==
    /\ ~panicked
    /\ handle_loop.ret # "running"
    /\ handlers.handler_index < MaxHandlers
    /\ \E order \in Orderings(0..handlers.handler_index) :
          handlers' = add_handler(handlers, HandlerBuilder_build(accepts, period, now), order)
    /\ UNCHANGED <<kbVars, devVars, histVars, callVars, keyVars, probe, builder, teardown,
                   handler_log, now>>

\* the system clock advances
Elapse ==
    /\ now < MaxTime
    /\ now' = now + 1
    /\ UNCHANGED <<kbVars, devVars, histVars, callVars, keyVars, probe, builder, teardown,
                   handlers, handler_log>>

\* KeyboardImpl::start_handle_loop is called; the init of the handlers in
\* failing returns an error: the error is returned, otherwise the loop is
\* entered, where without a wrapper recv panics
StartHandleLoop(failing) ==
    /\ ~panicked
    /\ handle_loop.ret # "running"
    /\ failing \subseteq Registered
    /\ \E run \in {init_handlers(handlers.order, 1, failing, "Io")} :
          /\ handler_log' = run.log
          /\ IF run.res # "Ok"
             THEN /\ handle_loop' = [handle_loop EXCEPT !.ret = run.res, !.err = "none"]
                  /\ UNCHANGED panicked
             ELSE IF usb_wrapper
             THEN /\ handle_loop' = [handle_loop EXCEPT !.ret = "running", !.err = "none"]
                  /\ UNCHANGED panicked
             ELSE /\ panicked' = TRUE
                  /\ UNCHANGED handle_loop
    /\ UNCHANGED <<control_packet_queue, sending_control, usb_wrapper, reconnect_attempts,
                   auto_reconnect, devVars, enq, handed, acks_parsed, outstanding, faulted, usb, recon,
                   callVars, keyVars, probe, builder, teardown, handlers, now>>

\* handle() returned k.res: the turn is recorded, then the match
Returned(k, o) ==
    /\ k.res \in {"NoDevice", "Io", "Busy"} => handle_loop.failures < MaxFailures
    /\ \E after \in {start_handle_loop_match(
                          [k EXCEPT !.handle_loop.err = k.res,
                                    !.handle_loop.failures =
                                        IF k.res \in {"NoDevice", "Io", "Busy"} THEN @ + 1 ELSE @],
                          o)} :
          SetKb(after)

\* one turn of the inner loop of KeyboardImpl::handle in which recv times
\* out, after the timeout computed from the handlers: the handlers that are
\* due are ticked, the handle_time of those in failing returns err, which
\* handle() returns
HandleTime(failing, err, o) ==
    /\ ~panicked
    /\ usb_wrapper
    /\ handle_loop.ret = "running"
    /\ completions = <<>>
    /\ failing \subseteq Registered
    /\ now + timeout(handlers.rec, now) <= MaxTime
    /\ now' = now + timeout(handlers.rec, now)
    /\ \E run \in {handle_times(handlers.rec, handlers.order, 1, now', failing, err)} :
          /\ handlers' = [handlers EXCEPT !.rec = run.hs]
          /\ handler_log' = run.log
          /\ IF run.res = "Ok"
             THEN UNCHANGED <<kbVars, in_flight, completions, acks_due, pending_reads, histVars>>
             ELSE Returned([Kb EXCEPT !.res = run.res], o)
    /\ UNCHANGED <<extra_acks, callVars, keyVars, probe, builder, teardown>>

\* the orders in which the HashMap can iterate the parsers; when at most
\* one parser accepts the packet, they all invoke the same parsers
ParserOrders(packet) ==
    IF \A n \in 1..Len(Parsers) : Parser_accept(Parsers[n], packet)
    THEN Orderings({Parsers[n] : n \in 1..Len(Parsers)})
    ELSE {Parsers}

\* the loop over the parsers in KeyboardImpl::handle for the packet recv
\* returned, r being the keyboard after recv; the key events go to the
\* handlers, a parse or a handle_key that returns an error ends the loop
HandleParsers(r, packet, invoked, ok, failing, err, o) ==
    IF invoked = <<>>
    THEN /\ Returned(r, o)
         /\ handler_log' = <<>>
         /\ UNCHANGED keyVars
    ELSE IF invoked = <<"ParseKey">>
    THEN /\ ParseKey(packet)
         /\ \E run \in {handle_key_events(handlers.rec, handlers.order,
                                          parsed'.events, 1, failing, err)} :
               /\ handler_log' = run.log
               /\ Returned([r EXCEPT !.res = run.res], o)
    ELSE IF invoked = <<"ParseControl">>
    THEN /\ Returned(ControlParser_parse(r, packet, ok), o)
         /\ handler_log' = <<>>
         /\ UNCHANGED keyVars
    ELSE IF invoked[1] = "ParseKey"
    THEN /\ ParseKey(packet)
         /\ \E run \in {handle_key_events(handlers.rec, handlers.order,
                                          parsed'.events, 1, failing, err)} :
               /\ handler_log' = run.log
               /\ Returned(IF run.res # "Ok"
                           THEN [r EXCEPT !.res = run.res]
                           ELSE ControlParser_parse(r, packet, ok), o)
    ELSE \E c \in {ControlParser_parse(r, packet, ok)} :
            IF c.res # "Ok"
            THEN /\ Returned(c, o)
                 /\ handler_log' = <<>>
                 /\ UNCHANGED keyVars
            ELSE /\ ParseKey(packet)
                 /\ \E run \in {handle_key_events(handlers.rec, handlers.order,
                                                  parsed'.events, 1, failing, err)} :
                       /\ handler_log' = run.log
                       /\ Returned([c EXCEPT !.res = run.res], o)

\* one turn of the loop of start_handle_loop in which recv returns the i-th
\* completed transfer: KeyboardImpl::handle, then the match on its result;
\* the handle_key of the handlers in failing returns err
Handle(i, status, resub_ok, ok, failing, err, o) ==
    /\ ~panicked
    /\ usb_wrapper
    /\ handle_loop.ret = "running"
    /\ i \in 1..Len(completions)
    /\ failing \subseteq Registered
    /\ \E r \in {Handle_recv(Kb, i, status, resub_ok)} :
          LET packet == Packet_new(completions[i].endpoint_direction, completions[i].buf)
          IN IF r.res # "Ok"
             THEN /\ Returned(r, o)
                  /\ handler_log' = <<>>
                  /\ UNCHANGED keyVars
             ELSE \E order \in ParserOrders(packet) :
                     HandleParsers(r, packet, parsers_invoked(packet, order),
                                   ok, failing, err, o)
    /\ UNCHANGED <<extra_acks, callVars, probe, builder, teardown, handlers, now>>

\* Keyboard::reconnect, called by the user of the keyboard
Reconnect(o) ==
    /\ ~panicked
    /\ SetKb(KeyboardInternal_reconnect(Kb, o))
    /\ UNCHANGED <<extra_acks, callVars, keyVars, unitVars>>

\* Keyboard::set_reconnect_attempts, called by the user of the keyboard
SetReconnectAttempts(attempts) ==
    /\ ~panicked
    /\ reconnect_attempts' = attempts
    /\ UNCHANGED <<control_packet_queue, sending_control, usb_wrapper, auto_reconnect,
                   panicked, devVars, histVars, callVars, keyVars, unitVars>>

\* Keyboard::set_auto_reconnect, called by the user of the keyboard
SetAutoReconnect(enabled) ==
    /\ ~panicked
    /\ auto_reconnect' = enabled
    /\ UNCHANGED <<control_packet_queue, sending_control, usb_wrapper, reconnect_attempts,
                   panicked, devVars, histVars, callVars, keyVars, unitVars>>

\* Keyboard::set_key_colors, called by the user of the keyboard
SetKeyColors(cats, ok) ==
    /\ Len(enq) < MaxEnqueued
    /\ Call_set_key_colors("set_key_colors", KeyColors(cats), ok)
    /\ Len(enq') <= MaxEnqueued
    /\ arg' = cats

----------------------------------------------------------------------------
(* The control queue: colour calls, the device taking and acknowledging    *)
(* the transfers, the loop parsing the completions, reconnects.            *)

\* a reconnect finds the device at once or never
Found == {<<"Ok">>, <<"NoDevice">>}

QueueArgs == {<<>>, <<"Standard">>, <<"Logo", "Gaming">>}

NextQueue ==
    \/ \E cats \in QueueArgs, ok \in BOOLEAN : SetKeyColors(cats, ok)
    \/ DeviceProcess
    \/ DeviceAck
    \/ DeviceExtraAck
    \/ StartHandleLoop({})
    \/ \E i \in 1..Len(completions), resub_ok, ok \in BOOLEAN, o \in Found :
          Handle(i, "Ok", resub_ok, ok, {}, "Io", o)
    \/ \E o \in Found : Reconnect(o)

SpecQueue == InitKeyboard /\ [][NextQueue]_vars

----------------------------------------------------------------------------
(* The key streams: the device sends input reports, the loop parses them.  *)
(* No control transfer is made, so no submission of one can fail; what a   *)
(* reconnect finds matters only in a turn whose resubmission fails.        *)

\* reports on endpoint 0x81: nothing, A, LeftShift + A, A + B, an unknown
\* code, a report whose second byte is set
StandardReports ==
    {resize(<<0>>, 8), resize(<<0, 0, 4>>, 8), resize(<<2, 0, 4>>, 8),
     resize(<<0, 0, 4, 5>>, 8), resize(<<0, 0, 3>>, 8), resize(<<0, 1>>, 8)}

\* rollover reports on endpoint 0x82: nothing, A, A + B
RolloverReports == {resize(<<1>>, 21), resize(<<1, 4>>, 21), resize(<<1, 4, 5>>, 21)}

\* media reports on endpoint 0x82, by their bitmap
MediaReports == {<<2, 0>>, <<2, 2>>, <<2, 5>>}

NextKeys ==
    \/ \E buf \in StandardReports : DeviceReport(129, buf)
    \/ \E buf \in RolloverReports \cup MediaReports : DeviceReport(130, buf)
    \/ StartHandleLoop({})
    \/ \E i \in 1..Len(completions), resub_ok \in BOOLEAN :
          \E o \in IF resub_ok THEN {<<"Ok">>} ELSE Found :
             Handle(i, "Ok", resub_ok, TRUE, {}, "Io", o)

SpecKeys == InitKeyboard /\ [][NextKeys]_vars

----------------------------------------------------------------------------
(* The event loop: the user starts it and sends colours; transfers         *)
(* complete with or without an error, a handler fails on a timeout; the    *)
(* host lets the attempts of a reconnect succeed or fail.                  *)

\* what try_wait_any says of a completed transfer
Statuses == {"Ok", "NoDevice", "Busy", "Pipe"}

\* what the attempts of a reconnect of the loop meet, see Outcome
LoopOutcomes == {<<"Ok">>, <<"NoDevice">>, <<"Busy", "Ok">>}

NextLoop ==
    \/ handlers.handler_index = 0 /\ AddHandler({}, <<0>>)
    \/ \E failing \in SUBSET Registered : StartHandleLoop(failing)
    \/ Len(enq) < MaxLoopCalls /\ SetKeyColors(<<>>, TRUE)
    \/ DeviceProcess
    \/ DeviceAck
    \/ DeviceReport(129, resize(<<0, 0, 4>>, 8))
    \/ \E i \in 1..Len(completions), status \in Statuses, resub_ok, ok \in BOOLEAN,
          o \in LoopOutcomes :
          Handle(i, status, resub_ok, ok, {}, "Io", o)
    \/ \E failing \in SUBSET Registered, err \in {"Io", "Overflow"}, o \in LoopOutcomes :
          HandleTime(failing, err, o)

SpecLoop == InitKeyboard /\ [][NextLoop]_vars

----------------------------------------------------------------------------
(* Reconnects by the user of the keyboard, who also sets the number of     *)
(* attempts and sends colours, which the device takes and acknowledges.    *)

\* what the attempts of a reconnect meet, see Outcome
Outcomes ==
    {<<"Ok">>, <<"NoDevice">>, <<"Busy", "Ok">>, <<"NoDevice", "Busy", "Ok">>,
     <<"Busy", "Access">>, <<"Access", "Busy", "NoDevice", "Ok">>}

NextReconnect ==
    \/ \E attempts \in 0..MaxAttempts : SetReconnectAttempts(attempts)
    \/ \E o \in Outcomes : Reconnect(o)
    \/ Len(enq) < MaxLoopCalls /\ SetKeyColors(<<>>, TRUE)
    \/ DeviceProcess
    \/ DeviceAck

SpecReconnect == InitKeyboard /\ [][NextReconnect]_vars

----------------------------------------------------------------------------
(* The handlers of key events: the user registers handlers and starts the  *)
(* loop, the device sends reports on endpoint 0x81, the loop parses them   *)
(* and calls the handlers, whose init and handle_key may return an error.  *)

\* the keys a handler accepts: none, A, A and B
AcceptSets == {{}, {Key_Standard(4)}, {Key_Standard(4), Key_Standard(5)}}

\* reports on endpoint 0x81: nothing, A, A + B
HandlerReports == {resize(<<0>>, 8), resize(<<0, 0, 4>>, 8), resize(<<0, 0, 4, 5>>, 8)}

NextHandlers ==
    \/ \E accepts \in AcceptSets : AddHandler(accepts, <<>>)
    \/ \E failing \in SUBSET Registered : StartHandleLoop(failing)
    \/ \E buf \in HandlerReports : DeviceReport(129, buf)
    \/ \E i \in 1..Len(completions), failing \in SUBSET Registered, err \in {"Io", "Overflow"} :
          Handle(i, "Ok", TRUE, TRUE, failing, err, <<"Ok">>)

SpecHandlers == InitKeyboard /\ [][NextHandlers]_vars

----------------------------------------------------------------------------
(* The handlers of ticks: the user registers handlers with or without a    *)
(* handle_time function and starts the loop, time passes, recv times out   *)
(* and the loop ticks the handlers, whose handle_time may return an error  *)
(* that ends the loop.                                                     *)

\* the periods of the handle_time functions: none, one and two units of time
TickPeriods == {<<>>, <<1>>, <<2>>}

NextTicks ==
    \/ \E period \in TickPeriods : AddHandler({}, period)
    \/ StartHandleLoop({})
    \/ Elapse
    \/ \E failing \in SUBSET Registered : HandleTime(failing, "Overflow", <<"Ok">>)

SpecTicks == InitKeyboard /\ [][NextTicks]_vars

----------------------------------------------------------------------------
(* The event loop with auto_reconnect set and cleared: the user sets the   *)
(* flag, starts the loop and sends colours; transfers complete with or     *)
(* without an error; a reconnect finds the device or does not.             *)

NextAuto ==
    \/ \E enabled \in BOOLEAN : SetAutoReconnect(enabled)
    \/ StartHandleLoop({})
    \/ Len(enq) < MaxLoopCalls /\ SetKeyColors(<<>>, TRUE)
    \/ DeviceProcess
    \/ DeviceAck
    \/ DeviceReport(129, resize(<<0, 0, 4>>, 8))
    \/ \E i \in 1..Len(completions), status \in Statuses, ok \in BOOLEAN, o \in Found :
          Handle(i, status, TRUE, ok, {}, "Io", o)

SpecAuto == InitKeyboard /\ [][NextAuto]_vars

----------------------------------------------------------------------------
(* A UsbWrapper by itself: get_handle acquires the device, with or without *)
(* a kernel driver on each interface and with calls that fail; the wrapper *)
(* of a successful acquire is dropped, with calls that fail.               *)

\* what kernel_driver_active returns for interfaces 0 and 1
ActiveVals == {"yes", "no", "err"}

\* the calls of get_handle that may fail
AcquireCalls ==
    {<<"detach_kernel_driver", 0>>, <<"detach_kernel_driver", 1>>,
     <<"claim_interface", 0>>, <<"claim_interface", 1>>, <<"reset", 0>>}

\* the calls of Drop that may fail
DropCalls ==
    {<<"release_interface", 1>>, <<"release_interface", 0>>,
     <<"attach_kernel_driver", 1>>, <<"attach_kernel_driver", 0>>}

\* UsbWrapper::new: get_handle on the opened device, interface i of the
\* tuple active being interface i - 1
Acquire(active, failing) ==
    /\ teardown.phase = "none"
    /\ \E w \in {get_handle([active |-> [i \in {0, 1} |-> active[i + 1]],
                               failing |-> failing])} :
          teardown' = [phase |-> IF w.res = "Ok" THEN "acquired" ELSE "failed",
                       active |-> active, acquire |-> w.calls, res |-> w.res,
                       has_kernel_driver0 |-> w.has_kernel_driver0,
                       has_kernel_driver1 |-> w.has_kernel_driver1, drop |-> <<>>]
    /\ UNCHANGED <<kbVars, devVars, histVars, callVars, keyVars, probe, builder, handlerVars>>

\* the UsbWrapper is dropped
DropWrapper(failing) ==
    /\ teardown.phase = "acquired"
    /\ teardown' = [teardown EXCEPT
                      !.phase = "dropped",
                      !.drop = Drop_for_UsbWrapper(teardown, [failing |-> failing])]
    /\ UNCHANGED <<kbVars, devVars, histVars, callVars, keyVars, probe, builder, handlerVars>>

NextTeardown ==
    \/ \E active \in ActiveVals \X ActiveVals, failing \in SUBSET AcquireCalls :
          Cardinality(failing) <= 1 /\ Acquire(active, failing)
    \/ \E failing \in SUBSET DropCalls : DropWrapper(failing)

SpecTeardown == InitKeyboard /\ [][NextTeardown]_vars

----------------------------------------------------------------------------
(* The parsers by themselves: a packet is put together from an endpoint,   *)
(* up to MaxBytes leading bytes and a length, then accept and parse of a   *)
(* new KeyParser, accept of the ControlParser and the loop over the        *)
(* parsers are applied to it.                                              *)

\* 0x82 is both a modifier bitmap (LeftShift, RightWindows) and a code no
\* StandardKey has; 0x11 starts an acknowledgement
ByteVals == {0, 1, 2, 4, 5, 17, 130}

Endpoints == {128, 129, 130}

PacketLens == {0, 2, 7, 8, 20, 21, 64}

\* the next leading byte of the packet
ProbePush(b) ==
    /\ ~probe.applied
    /\ Len(probe.buf) < MaxBytes
    /\ probe' = [probe EXCEPT !.buf = Append(@, b)]
    /\ UNCHANGED <<kbVars, devVars, histVars, callVars, keyVars, builder, teardown, handlerVars>>

\* KeyParser::new(): accept, and parse if it accepts, on the packet made of
\* the leading bytes, zeros up to n bytes, and the endpoint; accept of the
\* ControlParser, and the parsers the loop of KeyboardImpl::handle invokes
\* under each order of iteration
ProbeApply(endpoint_direction, n) ==
    /\ ~probe.applied
    /\ \E packet \in {Packet_new(endpoint_direction, resize(probe.buf, n))} :
          probe' = [probe EXCEPT !.applied = TRUE,
                                 !.packet = packet,
                                 !.accept = KeyParser_accept(packet),
                                 !.state = IF KeyParser_accept(packet)
                                           THEN KeyParser_state(packet) ELSE {},
                                 !.accept_control = ControlParser_accept(packet),
                                 !.invoked =
                                     {parsers_invoked(packet, order) :
                                        order \in Orderings({Parsers[m] : m \in 1..Len(Parsers)})}]
    /\ UNCHANGED <<kbVars, devVars, histVars, callVars, keyVars, builder, teardown, handlerVars>>

NextParser ==
    \/ \E b \in ByteVals : ProbePush(b)
    \/ \E e \in Endpoints, n \in PacketLens : ProbeApply(e, n)

SpecParser == InitKeyboard /\ [][NextParser]_vars

----------------------------------------------------------------------------
(* A ColorPacket<T> by itself: new, add calls with one of two key colors   *)
(* (in at most MaxRuns runs), and to_control_packet, which consumes it.    *)

\* the c-th of two KeyColors of the key type t
KeyColorChoice(t, c) ==
    IF c = 1
    THEN [key |-> [type |-> t, code |-> IF t = "Standard" THEN 4 ELSE 1],
          color |-> [red |-> 1, green |-> 2, blue |-> 3]]
    ELSE [key |-> [type |-> t, code |-> IF t = "Standard" THEN 5 ELSE 2],
          color |-> [red |-> 255, green |-> 0, blue |-> 7]]

\* ColorPacket::<T>::new()
BuilderNew(t) ==
    /\ builder.t = "none"
    /\ builder' = [builder EXCEPT !.t = t]
    /\ UNCHANGED <<kbVars, devVars, histVars, callVars, keyVars, probe, teardown, handlerVars>>

\* packet.add(key, color)
BuilderAdd(c) ==
    /\ builder.t # "none"
    /\ builder.encoded = <<>>
    /\ Len(builder.adds) < MaxAdds
    /\ Runs(Append(builder.adds, c)) <= MaxRuns
    /\ \E a \in {ColorPacket_add(builder.packet, KeyColorChoice(builder.t, c).key,
                                   KeyColorChoice(builder.t, c).color)} :
          builder' = [builder EXCEPT !.packet = a.self,
                                     !.adds = Append(@, c),
                                     !.asserted = a.asserted,
                                     !.res = a.res]
    /\ UNCHANGED <<kbVars, devVars, histVars, callVars, keyVars, probe, teardown, handlerVars>>

\* packet.to_control_packet()
BuilderEncode ==
    /\ builder.t # "none"
    /\ builder.encoded = <<>>
    /\ builder' = [builder EXCEPT
                     !.encoded = <<ColorPacket_to_control_packet(builder.t, builder.packet)>>]
    /\ UNCHANGED <<kbVars, devVars, histVars, callVars, keyVars, probe, teardown, handlerVars>>

NextBatch ==
    \/ \E t \in {"Standard", "Gaming", "Logo"} : BuilderNew(t)
    \/ \E c \in {1, 2} : BuilderAdd(c)
    \/ BuilderEncode

SpecBatch == InitKeyboard /\ [][NextBatch]_vars

----------------------------------------------------------------------------
(* Reading a payload off the wire, for the statements below.               *)

IsFlush(p) == Len(p.buf) = 20 /\ SubSeq(p.buf, 1, 4) = <<17, 255, 15, 91>>

IsBatch(p) == Len(p.buf) = 64 /\ SubSeq(p.buf, 1, 4) = <<18, 255, 15, 59>>

\* the category id, the count byte and the entries of a batch
BatchId(p) == p.buf[5] * 256 + p.buf[6]

BatchLen(p) == p.buf[8]

BatchEntries(p) == [i \in 1..BatchLen(p) |-> SubSeq(p.buf, 4 * i + 5, 4 * i + 8)]

IsBatchOf(p, cat) == IsBatch(p) /\ BatchId(p) = KeyType_id(cat)

RECURSIVE Concat(_)
Concat(seqs) == IF seqs = <<>> THEN <<>> ELSE Head(seqs) \o Concat(Tail(seqs))

\* the entries of the batches of one category among the payloads E, in order
EntriesSent(E, cat) ==
    Concat([i \in 1..Len(E) |-> IF IsBatchOf(E[i], cat) THEN BatchEntries(E[i]) ELSE <<>>])

\* the entries of one category in a key_colors list, in order, as on the wire
EntriesGiven(key_colors, cat) ==
    Concat([i \in 1..Len(key_colors) |->
        IF key_colors[i].key.type = cat
        THEN <<(<<key_colors[i].key.code, key_colors[i].color.red,
                  key_colors[i].color.green, key_colors[i].color.blue>>)>>
        ELSE <<>>])

Count(cats, cat) == Cardinality({i \in 1..Len(cats) : cats[i] = cat})

NumBatches(E, cat) == Cardinality({i \in 1..Len(E) : IsBatchOf(E[i], cat)})

CeilDiv(n, d) == (n + d - 1) \div d

ColorCats == {"Standard", "Gaming", "Logo"}

HasMedia(cats) == \E i \in 1..Len(cats) : cats[i] = "Media"

\* the payloads E are the split of key_colors (categories cats) by category
\* in batches of at most 14, followed by one Flush
SplitByCategory(E, cats) ==
    /\ Len(E) >= 1
    /\ IsFlush(E[Len(E)])
    /\ \A i \in 1..(Len(E) - 1) :
          /\ \E cat \in ColorCats : IsBatchOf(E[i], cat)
          /\ BatchLen(E[i]) \in 1..14
    /\ \A cat \in ColorCats :
          /\ NumBatches(E, cat) = CeilDiv(Count(cats, cat), 14)
          /\ EntriesSent(E, cat) = EntriesGiven(KeyColors(cats), cat)
    /\ Len(E) = CeilDiv(Count(cats, "Standard"), 14) + CeilDiv(Count(cats, "Gaming"), 14)
                  + CeilDiv(Count(cats, "Logo"), 14) + 1

Called == ret.op = "set_key_colors"

----------------------------------------------------------------------------
----------------------------------------------------------------------------
Rank(id) == CASE id = KeyType_Standard -> 1 [] id = KeyType_Gaming -> 2 [] OTHER -> 3

\* the batches among the payloads E, by position
Batches(E) == {i \in 1..Len(E) : IsBatch(E[i])}

(* C5, as claimed: within one set_key_colors call every Standard batch is  *)
(* enqueued before every Gaming batch and every Gaming batch before every  *)
(* Logo batch.                                                             *)
C5_CategoryOrder ==
    Called =>
        \A i, j \in Batches(ret.enqueued) :
            i < j => Rank(BatchId(ret.enqueued[i])) <= Rank(BatchId(ret.enqueued[j]))

(* C5, amended: within one set_key_colors call a batch is enqueued before  *)
(* a batch of an earlier category (Standard < Gaming < Logo) only if it is *)
(* a full batch of 14, split off in the loop when the 15th entry of its    *)
(* category was read; if the call returns Ok, a further batch of its       *)
(* category follows the other one.  So the last batches of the categories  *)
(* are enqueued Standard, then Gaming, then Logo.                          *)
C5_PartialBatchesInOrder ==
    Called =>
        \A i, j \in Batches(ret.enqueued) :
            (i < j /\ Rank(BatchId(ret.enqueued[i])) > Rank(BatchId(ret.enqueued[j])))
            => /\ BatchLen(ret.enqueued[i]) = 14
               /\ ret.res = "Ok" =>
                     \E l \in Batches(ret.enqueued) :
                        l > j /\ BatchId(ret.enqueued[l]) = BatchId(ret.enqueued[i])

\* 15 Gaming entries, then a Standard one: the full Gaming batch comes first
C5_Witness ==
    /\ Called
    /\ ret.res = "Ok"
    /\ Len(ret.enqueued) = 4
    /\ IsBatchOf(ret.enqueued[1], "Gaming")
    /\ IsBatchOf(ret.enqueued[2], "Standard")
    /\ IsBatchOf(ret.enqueued[3], "Gaming")

(* C6: every set_key_colors call that returns Ok, the empty list included, *)
(* enqueues exactly one Flush payload, and it is the last payload the call *)
(* enqueues.                                                               *)
C6_FlushLast ==
    (Called /\ ret.res = "Ok") =>
        /\ Len(ret.enqueued) >= 1
        /\ \A i \in 1..Len(ret.enqueued) : IsFlush(ret.enqueued[i]) <=> i = Len(ret.enqueued)

\* set_key_colors(vec![]) returned Ok: the Flush is all it enqueued
C6_Witness ==
    /\ Called
    /\ ret.res = "Ok"
    /\ arg = <<>>
    /\ Len(ret.enqueued) = 1
    /\ IsFlush(ret.enqueued[1])

\* the position of the first Media key of a list that has one
FirstMedia(cats) ==
    CHOOSE i \in 1..Len(cats) : cats[i] = "Media" /\ \A j \in 1..(i - 1) : cats[j] # "Media"

\* the entries of a category before position n
CountBefore(cats, n, cat) == Cardinality({i \in 1..(n - 1) : cats[i] = cat})

(* C7, as claimed: a set_key_colors call whose list has a Media key        *)
(* returns InvalidParam and enqueues no payload, whatever precedes the     *)
(* Media key.                                                              *)
C7_MediaEnqueuesNothing ==
    (Called /\ HasMedia(arg)) => (ret.res = "InvalidParam" /\ ret.enqueued = <<>>)

(* C7, amended: a set_key_colors call whose list has a Media key preceded  *)
(* by at most 14 entries of each category returns InvalidParam and         *)
(* enqueues no payload.  (Preceded by 15 or more entries of a category,    *)
(* the full batches split off before it are enqueued and may be submitted.)*)
C7_MediaRejected ==
    (/\ Called
     /\ HasMedia(arg)
     /\ \A cat \in ColorCats : CountBefore(arg, FirstMedia(arg), cat) <= 14)
    => /\ ret.res = "InvalidParam"
       /\ ret.enqueued = <<>>
       /\ sending_control \/ control_packet_queue = <<>>

\* a Media key after 14 Standard entries: nothing is enqueued
C7_Witness ==
    /\ Called
    /\ HasMedia(arg)
    /\ CountBefore(arg, FirstMedia(arg), "Standard") = 14
    /\ ret.res = "InvalidParam"
    /\ ret.enqueued = <<>>

\* the entries a packet of the call still holds, as on the wire
Held(cat) ==
    [i \in 1..Len(ret.packets[cat]) |->
        <<ret.packets[cat][i][1].code, ret.packets[cat][i][2].red,
          ret.packets[cat][i][2].green, ret.packets[cat][i][2].blue>>]

(* C8: a set_key_colors call whose list has a Media key enqueues no Flush; *)
(* when it fails because of the Media key (InvalidParam), the entries read *)
(* before it are the ones enqueued in batches followed by the ones still   *)
(* held in the three packets, and no held entry is in any payload ever     *)
(* enqueued.                                                               *)
C8_MediaLeavesUnflushed ==
    (Called /\ HasMedia(arg)) =>
        /\ \A i \in 1..Len(ret.enqueued) : ~IsFlush(ret.enqueued[i])
        /\ ret.res = "InvalidParam" =>
              \A cat \in ColorCats :
                 /\ EntriesSent(ret.enqueued, cat) \o Held(cat)
                      = EntriesGiven(SubSeq(KeyColors(arg), 1, FirstMedia(arg) - 1), cat)
                 /\ \A h \in 1..Len(Held(cat)) :
                       \A n \in 1..Len(enq) :
                          \A e \in 1..Len(BatchEntries(enq[n])) :
                             IsBatchOf(enq[n], cat) => BatchEntries(enq[n])[e] # Held(cat)[h]

\* 15 Standard entries and a Gaming one before the Media key: one batch was
\* enqueued, one Standard and one Gaming entry are held back
C8_Witness ==
    /\ Called
    /\ ret.res = "InvalidParam"
    /\ Len(ret.enqueued) = 1
    /\ Len(ret.packets.Standard) = 1
    /\ Len(ret.packets.Gaming) = 1

----------------------------------------------------------------------------
(* C1: at most one control transfer submitted on endpoint 0x80 has no      *)
(* acknowledgement parsed for it; a step hands at most one payload to      *)
(* Handle::send_control, and it does so either because the step parsed an  *)
(* acknowledgement (endpoint 2, 20 bytes, first byte 0x11) or because it   *)
(* enqueued on an idle queue, and the payload is then the first one the    *)
(* step enqueued; so the payloads handed over never outnumber the          *)
(* acknowledgements parsed by more than one.                               *)
C1_AckGating ==
    [][/\ outstanding' <= 1
       /\ Len(handed') <= Len(handed) + 1
       /\ Len(handed') > Len(handed) =>
             \/ acks_parsed' = acks_parsed + 1
             \/ /\ ~sending_control
                /\ Len(enq') > Len(enq)
                /\ Len(handed') = Len(enq) + 1
       /\ Len(handed') <= acks_parsed' + 1]_vars

\* three payloads enqueued: the second went out on the first
\* acknowledgement, the third waits for the next
C1_Witness ==
    /\ Len(enq) >= 3
    /\ Len(handed) = 2
    /\ acks_parsed = 1
    /\ outstanding = 1
    /\ Len(control_packet_queue) >= 1
    /\ ~faulted

(* C2: the payloads handed to Handle::send_control are, in order, the      *)
(* first of the payloads enqueued, and the queue holds the others, in      *)
(* order: none is skipped, duplicated or reordered.                        *)
C2_FifoSubmission ==
    /\ Len(handed) <= Len(enq)
    /\ handed = SubSeq(enq, 1, Len(handed))
    /\ control_packet_queue = SubSeq(enq, Len(handed) + 1, Len(enq))

\* calls and acknowledgements interleaved: three of four payloads handed
\* over, a batch among them
C2_Witness ==
    /\ Len(enq) = 4
    /\ Len(handed) = 3
    /\ acks_parsed = 2
    /\ \E i \in 1..3 : IsBatch(handed[i])
    /\ \E i \in 1..3 : IsFlush(handed[i])

(* C3: when k >= 1 payloads have been enqueued, no submission has failed,  *)
(* the device was not replaced and it delivers one acknowledgement for     *)
(* each payload it takes and no other, then sending_control is true as     *)
(* long as fewer than k acknowledgements are parsed, and once the k-th is  *)
(* parsed all k payloads have been handed over, the queue is empty and     *)
(* sending_control is false.                                               *)
C3_QueueDrain ==
    (~faulted /\ extra_acks = 0 /\ Len(enq) >= 1) =>
        /\ acks_parsed <= Len(enq)
        /\ acks_parsed < Len(enq) => sending_control
        /\ acks_parsed = Len(enq) =>
              /\ handed = enq
              /\ control_packet_queue = <<>>
              /\ ~sending_control

\* three payloads, three acknowledgements parsed
C3_Witness ==
    /\ ~faulted
    /\ extra_acks = 0
    /\ Len(enq) = 3
    /\ acks_parsed = 3
    /\ ~sending_control

----------------------------------------------------------------------------
Streams == {"standard", "rollover", "media"}

\* a key report has been parsed
Parsed == parsed.old_state # "none"

\* the stream of the report last parsed, by its endpoint and first byte
ReportStream ==
    IF parsed.packet.endpoint = 1 THEN "standard"
    ELSE IF parsed.packet.buf[1] = 1 THEN "rollover"
    ELSE "media"

\* the three pressed sets as they are now
Pressed == [standard |-> pressed_keys, rollover |-> pressed_rollover_keys,
            media |-> pressed_media_keys]

\* the positions of the events of one kind for key k among the events ev
EventsFor(ev, kind, k) == {i \in 1..Len(ev) : ev[i].event = kind /\ ev[i].key = k}

(* C9: a KeyParser::parse call for a stream with prior set P and decoded   *)
(* set N returns one KeyPressed for each key of N \ P, one KeyReleased for *)
(* each key of P \ N and no other event, every KeyPressed before every     *)
(* KeyReleased, and leaves N as the stream's pressed set.                  *)
C9_PressedSetDiff ==
    Parsed =>
        LET P == parsed.prior[ReportStream]
            N == parsed.state
            ev == parsed.events
        IN /\ \A k \in N \ P : Cardinality(EventsFor(ev, "KeyPressed", k)) = 1
           /\ \A k \in P \ N : Cardinality(EventsFor(ev, "KeyReleased", k)) = 1
           /\ Len(ev) = Cardinality(N \ P) + Cardinality(P \ N)
           /\ \A i, j \in 1..Len(ev) :
                 (ev[i].event = "KeyReleased" /\ ev[j].event = "KeyPressed") => j < i
           /\ Pressed[ReportStream] = N

\* A and LeftShift were held, the standard report holds nothing: both are
\* released
C9_Witness ==
    /\ Parsed
    /\ ReportStream = "standard"
    /\ parsed.prior.standard = {Key_Standard(4), Key_Standard(225)}
    /\ parsed.state = {}
    /\ Len(parsed.events) = 2
    /\ pressed_keys = {}

\* a parse leaves the sets of the other streams alone and returns events
\* only for keys in the difference with its own stream's prior set
OwnStreamOnly ==
    LET P == parsed.prior[ReportStream]
        N == parsed.state
    IN /\ \A s \in Streams \ {ReportStream} : Pressed[s] = parsed.prior[s]
       /\ \A i \in 1..Len(parsed.events) :
             IF parsed.events[i].event = "KeyPressed"
             THEN parsed.events[i].key \in N \ P
             ELSE parsed.events[i].key \in P \ N

(* C10, as claimed: a parse leaves the pressed sets of the other two       *)
(* streams unchanged and returns events only from the difference with its  *)
(* own stream's prior set; a key held in the standard stream gets no       *)
(* KeyReleased when a rollover or media report without it is parsed.       *)
C10_NoReleaseOfHeldKey ==
    Parsed =>
        /\ OwnStreamOnly
        /\ ReportStream # "standard" =>
              \A k \in parsed.prior.standard \ parsed.state :
                 EventsFor(parsed.events, "KeyReleased", k) = {}

(* C10, amended: a parse leaves the pressed sets of the other two streams  *)
(* unchanged and returns events only from the difference with its own      *)
(* stream's prior set; a key held in the standard stream and not in the    *)
(* prior set of the rollover or media stream gets no KeyReleased when a    *)
(* report of that stream is parsed.  (A key held in both the standard and  *)
(* the rollover set is released when a rollover report drops it.)          *)
C10_StreamIndependence ==
    Parsed =>
        /\ OwnStreamOnly
        /\ ReportStream # "standard" =>
              \A k \in parsed.prior.standard \ parsed.prior[ReportStream] :
                 EventsFor(parsed.events, "KeyReleased", k) = {}

\* A and LeftShift held in the standard stream, A and B in the rollover
\* stream; the rollover report holds A only: B alone is released
C10_Witness ==
    /\ Parsed
    /\ ReportStream = "rollover"
    /\ parsed.prior.standard = {Key_Standard(4), Key_Standard(225)}
    /\ parsed.prior.rollover = {Key_Standard(4), Key_Standard(5)}
    /\ parsed.state = {Key_Standard(4)}
    /\ pressed_keys = {Key_Standard(4), Key_Standard(225)}
    /\ Len(parsed.events) = 1

----------------------------------------------------------------------------
\* bit i of the byte x
Bit(x, i) == (x \div (2 ^ i)) % 2

\* every bit of k is set in b
Covers(b, k) == \A i \in 0..7 : Bit(k, i) = 1 => Bit(b, i) = 1

\* the packet of the probe by masked endpoint, length and the bytes
\* buf[0] and buf[1] of the source
ProbeIs(endpoint, n) == probe.packet.endpoint = endpoint /\ Len(probe.packet.buf) = n

(* C11, as claimed: accept is true exactly when (masked endpoint, length,  *)
(* buf[0]) is (1, 8, 0x00), (2, 21, 0x01) or (2, 2, 0x02).                 *)
C11_AcceptOnFirstByte ==
    probe.applied =>
        (probe.accept <=>
            \/ ProbeIs(1, 8) /\ probe.packet.buf[1] = 0
            \/ ProbeIs(2, 21) /\ probe.packet.buf[1] = 1
            \/ ProbeIs(2, 2) /\ probe.packet.buf[1] = 2)

(* C11, amended: accept is true exactly when the packet has masked         *)
(* endpoint 1, length 8 and second byte buf[1] = 0x00 (standard; the first *)
(* byte, the modifier bitmap, is free), or (masked endpoint, length,       *)
(* buf[0]) is (2, 21, 0x01) (rollover) or (2, 2, 0x02) (media).            *)
C11_AcceptClassification ==
    probe.applied =>
        (probe.accept <=>
            \/ ProbeIs(1, 8) /\ probe.packet.buf[2] = 0
            \/ ProbeIs(2, 21) /\ probe.packet.buf[1] = 1
            \/ ProbeIs(2, 2) /\ probe.packet.buf[1] = 2)

\* a standard report with LeftShift in the bitmap and A is accepted
C11_Witness ==
    /\ probe.applied
    /\ ProbeIs(1, 8)
    /\ SubSeq(probe.packet.buf, 1, 3) = <<2, 0, 4>>
    /\ probe.accept

(* C12: for an accepted media report the decoded set holds the Media key   *)
(* with code k exactly when every bit of k is set in buf[1]; the report    *)
(* [0x02, 0x05] decodes to the keys 0x01 and 0x04, without 0x02.           *)
C12_MediaBitmap ==
    (probe.applied /\ probe.accept /\ ProbeIs(2, 2)) =>
        probe.state = {Key_Media(k) : k \in {c \in {1, 2, 4} : Covers(probe.packet.buf[2], c)}}

\* the report [0x02, 0x05]
C12_Witness ==
    /\ probe.applied
    /\ probe.accept
    /\ probe.packet = [endpoint |-> 2, buf |-> <<2, 5>>]
    /\ probe.state = {Key_Media(1), Key_Media(4)}

\* the Standard keys of the known non-zero codes in buf[from..] of the source
CodesFrom(buf, from) ==
    {Key_Standard(buf[i]) : i \in {j \in (from + 1)..Len(buf) : buf[j] \in StandardKey_values}}

(* C13: for an accepted standard report the decoded set is the modifier    *)
(* keys whose bit is set in byte 0 (bit i: the key with code 0xe0 + i,     *)
(* LeftControl .. RightWindows) and the Standard keys of the known         *)
(* non-zero codes in bytes 2..8; for an accepted rollover report it is the *)
(* Standard keys of the known codes in bytes 1..21 and no key from a       *)
(* bitmap.                                                                 *)
C13_StandardDecoding ==
    (probe.applied /\ probe.accept) =>
        /\ ProbeIs(1, 8) =>
              probe.state = {Key_Standard(224 + i) : i \in {j \in 0..7 : Bit(probe.packet.buf[1], j) = 1}}
                              \cup CodesFrom(probe.packet.buf, 2)
        /\ ProbeIs(2, 21) => probe.state = CodesFrom(probe.packet.buf, 1)

\* bitmap 0x82, then A and the unknown code 0x82: LeftShift, RightWindows, A
C13_Witness ==
    /\ probe.applied
    /\ probe.accept
    /\ ProbeIs(1, 8)
    /\ SubSeq(probe.packet.buf, 1, 4) = <<130, 0, 4, 130>>
    /\ probe.state = {Key_Standard(225), Key_Standard(231), Key_Standard(4)}

----------------------------------------------------------------------------
\* the entry the last add call of the builder was given
LastAdded(b) ==
    <<KeyColorChoice(b.t, b.adds[Len(b.adds)]).key, KeyColorChoice(b.t, b.adds[Len(b.adds)]).color>>

(* C14: an add call on a packet holding 14 entries returns a packet with   *)
(* exactly those 14 entries, in order, and leaves the packet holding the   *)
(* new entry only; on a packet holding fewer it returns None and appends   *)
(* the entry; after every add call the packet holds between 1 and 14       *)
(* entries and the assertion at the start of add held.                     *)
C14_BatchCap ==
    [][Len(builder'.adds) = Len(builder.adds) + 1 =>
          /\ builder'.asserted
          /\ Len(builder'.packet) >= 1
          /\ Len(builder'.packet) <= 14
          /\ IF Len(builder.packet) = 14
             THEN /\ builder'.res = <<builder.packet>>
                  /\ builder'.packet = <<LastAdded(builder')>>
             ELSE /\ builder'.res = <<>>
                  /\ builder'.packet = Append(builder.packet, LastAdded(builder'))]_vars

\* the 15th add call returned the 14 entries and left one
C14_Witness ==
    /\ Len(builder.adds) = 15
    /\ Len(builder.packet) = 1
    /\ builder.res # <<>>
    /\ Len(builder.res[1]) = 14
    /\ builder.res[1][14] # builder.res[1][1]

(* C15: to_control_packet on a packet of n entries, 0 <= n <= 14, of any   *)
(* key type yields 64 bytes: 12 FF 0F 3B, the key type id big-endian       *)
(* (00 01, 00 04 or 00 10), 00, n, then code, red, green, blue of each     *)
(* entry in the order added, then zeros.                                   *)
C15_BatchEncoding ==
    builder.encoded # <<>> =>
        LET buf == builder.encoded[1].buf
            n == Len(builder.packet)
        IN /\ n <= 14
           /\ Len(buf) = 64
           /\ SubSeq(buf, 1, 4) = <<18, 255, 15, 59>>
           /\ SubSeq(buf, 5, 6) = (CASE builder.t = "Standard" -> <<0, 1>>
                                     [] builder.t = "Gaming" -> <<0, 4>>
                                     [] builder.t = "Logo" -> <<0, 16>>)
           /\ buf[7] = 0
           /\ buf[8] = n
           /\ \A i \in 0..(n - 1) :
                 SubSeq(buf, 9 + 4 * i, 12 + 4 * i)
                   = <<builder.packet[i + 1][1].code, builder.packet[i + 1][2].red,
                       builder.packet[i + 1][2].green, builder.packet[i + 1][2].blue>>
           /\ \A j \in (9 + 4 * n)..64 : buf[j] = 0

\* a full Logo packet, both key colors in it, fills the 64 bytes
C15_Witness ==
    /\ builder.encoded # <<>>
    /\ builder.t = "Logo"
    /\ Len(builder.packet) = 14
    /\ SubSeq(builder.encoded[1].buf, 9, 12) = <<1, 1, 2, 3>>
    /\ SubSeq(builder.encoded[1].buf, 61, 64) = <<2, 255, 0, 7>>

----------------------------------------------------------------------------
(* C16: whenever recv returns a completion from endpoint 0x81 or 0x82 it   *)
(* has resubmitted that transfer, a completion from 0x80 is never          *)
(* resubmitted, and after every successful recv exactly one interrupt read *)
(* is in the async group on each of 0x81 and 0x82.                         *)
C16_ResubmissionRule ==
    handle_loop.recv.res = "Ok" =>
        /\ handle_loop.recv.endpoint_direction \in {129, 130} => handle_loop.recv.resubmitted
        /\ handle_loop.recv.endpoint_direction = 128 => ~handle_loop.recv.resubmitted
        /\ \A e \in {129, 130} : handle_loop.recv.transfers[e] = 1

\* recv returns the completion of a control transfer after a reconnect: no
\* read is in the group on either endpoint
C16_Witness ==
    /\ handle_loop.recv.res = "Ok"
    /\ handle_loop.recv.endpoint_direction = 128
    /\ recon.res = "Ok"
    /\ \A e \in {129, 130} : handle_loop.recv.transfers[e] = 0

(* C17: after a reconnect returns Ok an interrupt read is pending on       *)
(* endpoint 0x81 and on endpoint 0x82.                                     *)
C17_ReconnectRearmsReads ==
    recon.res = "Ok" => {129, 130} \subseteq recon.reads

\* a reconnect returned Ok on its second attempt and left no read pending
C17_Witness ==
    /\ recon.res = "Ok"
    /\ Len(recon.tries) = 2
    /\ recon.reads = {}
    /\ usb_wrapper

(* C18: no device is enumerated and opened while a device handle is open   *)
(* or an interface set is claimed, so never two device handles are open    *)
(* and never two interface sets are claimed; what is open and claimed is   *)
(* what the wrapper of the handle holds.                                   *)
C18_FreeBeforeReopen ==
    /\ usb.held_at_open = 0
    /\ usb.peak_handles <= 1
    /\ usb.peak_claimed <= 1
    /\ usb.handles = (IF usb_wrapper THEN 1 ELSE 0)
    /\ usb.claimed = (IF usb_wrapper THEN 1 ELSE 0)

\* a reconnect over a live wrapper with transfers in it: one attempt opens
\* the device and fails to claim it, the next succeeds
C18_Witness ==
    /\ recon.tries = <<"NoDevice", "Busy", "Ok">>
    /\ usb_wrapper
    /\ usb.handles = 1
    /\ Len(handed) >= 1
    /\ in_flight = <<>>

(* C19: a reconnect with reconnect_attempts = N makes at most N attempts,  *)
(* none after one that succeeded; it returns Ok when an attempt succeeds   *)
(* and, when all N fail, N >= 1, the error of the N-th.                    *)
C19_ReconnectAttempts ==
    recon.res # "none" =>
        LET N == recon.attempts
            n == Len(recon.tries)
        IN /\ n <= N
           /\ \A j \in 1..n : recon.tries[j] = Outcome(recon.outcomes, j)
           /\ \A j \in 1..(n - 1) : recon.tries[j] # "Ok"
           /\ IF \E j \in 1..N : Outcome(recon.outcomes, j) = "Ok"
              THEN /\ recon.res = "Ok"
                   /\ recon.tries[n] = "Ok"
              ELSE /\ n = N
                   /\ N >= 1 => recon.res = recon.tries[N]
                   /\ recon.res # "Ok"

\* two attempts fail with different errors where a third would have succeeded
C19_Witness ==
    /\ recon.attempts = 2
    /\ recon.outcomes = <<"NoDevice", "Busy", "Ok">>
    /\ recon.tries = <<"NoDevice", "Busy">>
    /\ recon.res = "Busy"
    /\ ~usb_wrapper

(* C20: the loop has invoked reconnect once for each turn in which         *)
(* handle() returned NoDevice, Io or Busy; after such a turn it runs on    *)
(* when the reconnect succeeded and has returned the error of the          *)
(* reconnect when it failed; after a turn with another error it has        *)
(* returned that error; it never returns Ok.                               *)
C20_LoopErrorPolicy ==
    /\ handle_loop.ret # "Ok"
    /\ handle_loop.reconnects = handle_loop.failures
    /\ handle_loop.err = "Ok" => handle_loop.ret = "running"
    /\ handle_loop.err \in {"NoDevice", "Io", "Busy"} =>
          /\ recon.res # "none"
          /\ IF recon.res = "Ok"
             THEN handle_loop.ret = "running"
             ELSE handle_loop.ret = recon.res
    /\ handle_loop.err \notin {"none", "Ok", "NoDevice", "Io", "Busy"} =>
          handle_loop.ret = handle_loop.err

\* three failing turns, three reconnects, and the loop runs on
C20_Witness ==
    /\ handle_loop.failures = 3
    /\ handle_loop.reconnects = 3
    /\ handle_loop.err = "Busy"
    /\ handle_loop.ret = "running"

----------------------------------------------------------------------------
\* the calls of a log as pairs of operation and interface
Ops(calls) == [n \in 1..Len(calls) |-> <<calls[n].op, calls[n].iface>>]

\* the acquire detached the kernel driver of an interface
Detached(iface) ==
    \E n \in 1..Len(teardown.acquire) :
        /\ teardown.acquire[n].op = "detach_kernel_driver"
        /\ teardown.acquire[n].iface = iface
        /\ teardown.acquire[n].ok

(* C21: the drop of a wrapper calls release_interface on 1 and on 0, then  *)
(* attach_kernel_driver on exactly the interfaces whose kernel driver the  *)
(* acquire detached, whichever of these calls fail.                        *)
C21_TeardownRestoresDrivers ==
    teardown.phase = "dropped" =>
        /\ Len(teardown.drop)
             = 2 + Cardinality({i \in {0, 1} : Detached(i)})
        /\ SubSeq(Ops(teardown.drop), 1, 2)
             = <<<<"release_interface", 1>>, <<"release_interface", 0>>>>
        /\ \A i \in {0, 1} :
             Cardinality({n \in 1..Len(teardown.drop) :
                            Ops(teardown.drop)[n] = <<"attach_kernel_driver", i>>})
               = (IF Detached(i) THEN 1 ELSE 0)
        /\ \A i \in {0, 1} : Detached(i) <=> teardown.active[i + 1] = "yes"

\* a kernel driver on interface 0 only; both releases fail and the driver
\* of interface 0 is reattached all the same
C21_Witness ==
    /\ teardown.phase = "dropped"
    /\ teardown.active = <<"yes", "no">>
    /\ Ops(teardown.drop)
         = <<<<"release_interface", 1>>, <<"release_interface", 0>>,
             <<"attach_kernel_driver", 0>>>>
    /\ ~teardown.drop[1].ok
    /\ ~teardown.drop[2].ok
    /\ teardown.drop[3].ok

----------------------------------------------------------------------------
(* C22: a turn of the loop that parses an acknowledgement while no control *)
(* payload is outstanding (sending_control false, queue empty) ends with   *)
(* handle() returning an error.                                            *)
C22_UnexpectedAckReported ==
    [][(/\ acks_parsed' = acks_parsed + 1
        /\ ~sending_control
        /\ control_packet_queue = <<>>) => handle_loop'.err # "Ok"]_vars

\* before any colour call the device sent an acknowledgement, the loop
\* parsed it, handle() returned Ok and the loop runs on
C22_Witness ==
    /\ enq = <<>>
    /\ extra_acks = 1
    /\ acks_parsed = 1
    /\ handle_loop.err = "Ok"
    /\ handle_loop.ret = "running"
    /\ ~sending_control

----------------------------------------------------------------------------
\* the calls of a log without what they returned
CallsMade(log) == [n \in 1..Len(log) |-> <<log[n].fn, log[n].index, log[n].with>>]

\* the init calls of the registered handlers, one each, in the order of
\* their registration
InitsInRegistrationOrder ==
    [n \in 1..handlers.handler_index |-> <<"init", n - 1, <<>>>>]

(* C23: start_handle_loop calls init on every registered handler exactly   *)
(* once, in registration order, and before the loop receives, parses or    *)
(* dispatches anything: the calls of a start_handle_loop are the inits of  *)
(* the handlers 0, 1, ... and nothing else.                                *)
C23_HandlerInit ==
    [][(\E failing \in SUBSET Registered : StartHandleLoop(failing))
          => CallsMade(handler_log') = InitsInRegistrationOrder]_vars

\* two handlers were registered and start_handle_loop has called the init
\* of the second before the init of the first
C23_Witness ==
    /\ handlers.handler_index = 2
    /\ handle_loop.ret = "running"
    /\ handler_log = <<HandlerCall("init", 1, <<>>, "Ok"), HandlerCall("init", 0, <<>>, "Ok")>>

----------------------------------------------------------------------------
\* for each of the key events in turn, the handle_key calls of the
\* handlers of hs that accept it, in the order of their registration
DispatchInRegistrationOrder(key_events, hs) ==
    LET Accepted(call) == call[3].key \in hs[call[2] + 1].accepts
    IN Concat([m \in 1..Len(key_events) |->
                  SelectSeq([n \in 1..Len(hs) |-> <<"handle_key", n - 1, key_events[m]>>],
                            Accepted)])

(* C24: for each KeyEvent produced from a packet, handle_key is called on  *)
(* exactly the registered handlers whose accept_key returns true for that  *)
(* event, in the order in which the handlers were registered.              *)
C24_HandlerDispatchOrder ==
    [][(\E i \in 1..Len(completions), failing \in SUBSET Registered, err \in {"Io", "Overflow"} :
           /\ KeyParser_accept(Packet_new(completions[i].endpoint_direction, completions[i].buf))
           /\ Handle(i, "Ok", TRUE, TRUE, failing, err, <<"Ok">>))
          => CallsMade(handler_log') = DispatchInRegistrationOrder(parsed'.events, handlers.rec)]_vars

\* two handlers accept the key A, and the press of A was handed to the
\* second before the first
C24_Witness ==
    /\ handlers.handler_index = 2
    /\ parsed.events = KeyEvent_KeyPressed(<<Key_Standard(4)>>)
    /\ handler_log = <<HandlerCall("handle_key", 1, parsed.events[1], "Ok"),
                       HandlerCall("handle_key", 0, parsed.events[1], "Ok")>>

----------------------------------------------------------------------------
\* a packet is of an acknowledgement or of a control transfer by its
\* endpoint, length and first byte
ControlShaped(packet) ==
    \/ Len(packet.buf) \in {20, 64} /\ packet.endpoint = 0
    \/ Len(packet.buf) = 20 /\ packet.endpoint = 2 /\ packet.buf[1] = 17

\* a packet is a report of a key stream by its endpoint, length and tag
KeyShaped(packet) ==
    \/ Len(packet.buf) = 8 /\ packet.endpoint = 1 /\ packet.buf[2] = 0
    \/ Len(packet.buf) = 21 /\ packet.endpoint = 2 /\ packet.buf[1] = 1
    \/ Len(packet.buf) = 2 /\ packet.endpoint = 2 /\ packet.buf[1] = 2

(* C25: for every packet the loop invokes parse on at most one parser,     *)
(* the first in insertion order (KeyParser, then ControlParser) whose      *)
(* accept returns true, whatever the order in which the parsers are        *)
(* iterated; no packet is accepted by both parsers, and for a packet       *)
(* accepted by none no parser is invoked.                                  *)
C25_ParserDispatch ==
    probe.applied =>
        /\ ~(probe.accept /\ probe.accept_control)
        /\ probe.invoked =
              {IF KeyShaped(probe.packet) THEN <<"ParseKey">>
               ELSE IF ControlShaped(probe.packet) THEN <<"ParseControl">>
               ELSE <<>>}
        /\ \A invoked \in probe.invoked : Len(invoked) <= 1

\* an acknowledgement on endpoint 0x82, which only the ControlParser is
\* given
C25_Witness ==
    /\ probe.applied
    /\ probe.packet = Packet_new(130, resize(<<17>>, 20))
    /\ probe.accept_control
    /\ probe.invoked = {<<"ParseControl">>}

----------------------------------------------------------------------------
\* the handler of an index has a tick function
HasTick(index) == handlers.rec[index + 1].period # <<>>

\* the time since the last tick of a handler, at the time t
ElapsedAt(index, t) == t - handlers.rec[index + 1].last_called

\* the handlers with a tick function whose period has elapsed at the time t
Due(t) ==
    {index \in Registered : HasTick(index) /\ ElapsedAt(index, t) >= handlers.rec[index + 1].period[1]}

\* what is left of the period of a handler with a tick function
Remaining(index) ==
    IF ElapsedAt(index, now) >= handlers.rec[index + 1].period[1]
    THEN 0
    ELSE handlers.rec[index + 1].period[1] - ElapsedAt(index, now)

\* the handlers of a set in the order in which the map iterates them
InIterationOrder(S) ==
    LET In(index) == index \in S
    IN SelectSeq(handlers.order, In)

\* the first n handlers of a sequence are ticked, and none but the last
\* of them returns an error
TickedUpTo(due, n) ==
    /\ Len(handler_log') = n
    /\ \A m \in 1..n :
          /\ handler_log'[m].fn = "handle_time"
          /\ handler_log'[m].index = due[m]
          /\ handler_log'[m].with = ElapsedAt(due[m], now')
          /\ m < n => handler_log'[m].res = "Ok"
    /\ n < Len(due) => n > 0 /\ handler_log'[n].res # "Ok"

\* the step is a timeout of recv: the loop runs and the record of a handler
\* changes
Timeout == handle_loop.ret = "running" /\ handlers'.rec # handlers.rec

(* C26, as claimed: when the wait times out, tick is called on exactly the *)
(* handlers that have a tick function and whose sleep_duration is 0, each  *)
(* call resets the last-called time of its handler (also when the tick     *)
(* returns an error), no handler is ticked before its period has elapsed,  *)
(* and the wait lasted the minimum sleep_duration of the handlers with a   *)
(* tick.                                                                   *)
C26_TickOnTimeout ==
    [][Timeout =>
          /\ {handler_log'[m].index : m \in 1..Len(handler_log')} = Due(now')
          /\ Len(handler_log') = Cardinality(Due(now'))
          /\ \A index \in Due(now') : handlers'.rec[index + 1].last_called = now'
          /\ now' - now = Min({Remaining(index) : index \in {h \in Registered : HasTick(h)}})]_vars

(* C26, amended: when the wait times out, tick is called on the handlers   *)
(* that have a tick function and whose sleep_duration is 0, in the order   *)
(* in which the map iterates them, up to and including the first whose     *)
(* tick returns an error (on all of them if none does); each call gets the *)
(* time since the previous tick, which is at least the period, and resets  *)
(* the last-called time of its handler to now, also when the tick returns  *)
(* an error; the other handlers are left alone; and the wait lasted the    *)
(* minimum sleep_duration of the handlers with a tick.                     *)
C26_TickOnTimeoutUntilError ==
    [][/\ (handle_loop.ret = "running" /\ handler_log' # handler_log) => Timeout
       /\ Timeout =>
             \E due \in {InIterationOrder(Due(now'))} :
                /\ \E n \in 0..Len(due) : TickedUpTo(due, n)
                /\ handlers'.handler_index = handlers.handler_index
                /\ handlers'.order = handlers.order
                /\ Len(handlers'.rec) = Len(handlers.rec)
                /\ \A index \in Registered :
                      handlers'.rec[index + 1] =
                          IF \E m \in 1..Len(handler_log') : handler_log'[m].index = index
                          THEN [handlers.rec[index + 1] EXCEPT !.last_called = now']
                          ELSE handlers.rec[index + 1]
                /\ \A m \in 1..Len(handler_log') :
                      handler_log'[m].with >= handlers.rec[handler_log'[m].index + 1].period[1]
                /\ now' - now = Min({Remaining(index) : index \in {h \in Registered : HasTick(h)}})]_vars

\* two handlers were due at a timeout; the tick of the first returned an
\* error, its last-called time was reset, and the second was not ticked
C26_Witness ==
    /\ handlers.handler_index = 2
    /\ Len(handler_log) = 1
    /\ handler_log[1].fn = "handle_time"
    /\ handle_loop.err \in {"Io", "Overflow"}
    /\ handlers.rec[handler_log[1].index + 1].last_called = now
    /\ \E index \in Registered :
          /\ index # handler_log[1].index
          /\ HasTick(index)
          /\ ElapsedAt(index, now) >= handlers.rec[index + 1].period[1]

----------------------------------------------------------------------------
\* a control transfer submitted on the current connection has not been
\* acknowledged yet: the device has not taken it, or has not delivered its
\* acknowledgement, or the acknowledgement waits to be parsed
Unacknowledged ==
    \/ in_flight # <<>>
    \/ acks_due > 0
    \/ \E i \in 1..Len(completions) : completions[i] = Completed(130, AckBuf)

(* C27: sending_control is true only if a control transfer was submitted   *)
(* successfully on the current device connection and has not been          *)
(* acknowledged yet, also after Handle::send_control returned an error and *)
(* after a reconnect replaced the device.                                  *)
C27_InFlightFlagTruthful == sending_control => Unacknowledged

\* the flag is set with nothing submitted and nothing to be acknowledged,
\* and payloads wait in the queue behind it
C27_Witness ==
    /\ usb_wrapper
    /\ ~panicked
    /\ sending_control
    /\ ~Unacknowledged
    /\ pending_reads = {129, 130}
    /\ control_packet_queue # <<>>

----------------------------------------------------------------------------
(* C28: whenever control_packet_queue is not empty, sending_control is     *)
(* true, whether or not submissions failed; so when sending_control is     *)
(* false the queue is empty, every payload enqueued so far was handed to   *)
(* Handle::send_control, and the next enqueue submits at once.             *)
C28_QueueImpliesInFlight ==
    /\ control_packet_queue # <<>> => sending_control
    /\ ~sending_control => control_packet_queue = <<>> /\ handed = enq

\* a submission failed, and payloads wait in the queue with the flag set
C28_Witness ==
    /\ faulted
    /\ Len(control_packet_queue) >= 2
    /\ sending_control
    /\ Len(handed) >= 1

----------------------------------------------------------------------------
(* C29: no sequence of calls reaches Handle::send_control, send_interrupt  *)
(* or recv while usb_wrapper is None: the thread never unwinds from the    *)
(* unwrap of an absent wrapper, in particular not in a colour call or in   *)
(* the loop after a reconnect whose attempts all failed.                   *)
C29_HandlePresentWhenUsed == ~(panicked /\ ~usb_wrapper)

\* every attempt of a reconnect failed, and the colour call made after it
\* panicked in Handle::send_control
C29_Witness ==
    /\ recon.res = "NoDevice"
    /\ ~usb_wrapper
    /\ ret.op = "set_key_colors"
    /\ ret.res = "Panic"
    /\ panicked

----------------------------------------------------------------------------
\* the keyboard with the other value of auto_reconnect
Flip(k) == [k EXCEPT !.auto_reconnect = ~@]

(* C30: auto_reconnect has no effect on the loop: the loop has invoked     *)
(* reconnect once for each turn in which handle() returned NoDevice, Io or *)
(* Busy, whatever the flag was; and from every state, what recv, the       *)
(* parse of an acknowledgement, a colour call and the match of             *)
(* start_handle_loop make of the keyboard with the flag set is what they   *)
(* make of it with the flag cleared, but for the flag.                     *)
C30_AutoReconnectIgnored ==
    /\ handle_loop.reconnects = handle_loop.failures
    /\ \A res \in Statuses :
          res \in {"NoDevice", "Io", "Busy"} =>
             \A enabled \in BOOLEAN :
                start_handle_loop_match([Kb EXCEPT !.res = res, !.auto_reconnect = enabled],
                                        <<"Ok">>).handle_loop.reconnects
                   = handle_loop.reconnects + 1
    /\ \A res \in Statuses, o \in Found :
          start_handle_loop_match(Flip([Kb EXCEPT !.res = res]), o)
             = Flip(start_handle_loop_match([Kb EXCEPT !.res = res], o))
    /\ \A i \in 1..Len(completions), status \in Statuses, resub_ok \in BOOLEAN :
          Handle_recv(Flip(Kb), i, status, resub_ok) = Flip(Handle_recv(Kb, i, status, resub_ok))
    /\ \A ok \in BOOLEAN :
          /\ ControlParser_parse(Flip(Kb), Packet_new(130, AckBuf), ok)
                = Flip(ControlParser_parse(Kb, Packet_new(130, AckBuf), ok))
          /\ set_key_colors(Flip(Kb), KeyColors(<<>>), ok).k
                = Flip(set_key_colors(Kb, KeyColors(<<>>), ok).k)

\* with auto_reconnect cleared the loop has reconnected after a failing
\* turn and runs on
C30_Witness ==
    /\ ~auto_reconnect
    /\ handle_loop.err \in {"NoDevice", "Io", "Busy"}
    /\ handle_loop.reconnects >= 1
    /\ recon.res = "Ok"
    /\ handle_loop.ret = "running"

----------------------------------------------------------------------------
RECURSIVE Alternates(_, _)
\* the events go on alternating for every key: a key of held, whose last
\* event was KeyPressed, is next released, any other key is next pressed
Alternates(key_events, held) ==
    IF key_events = <<>>
    THEN TRUE
    ELSE IF Head(key_events).event = "KeyPressed"
    THEN /\ Head(key_events).key \notin held
         /\ Alternates(Tail(key_events), held \cup {Head(key_events).key})
    ELSE /\ Head(key_events).key \in held
         /\ Alternates(Tail(key_events), held \ {Head(key_events).key})

(* C31: for each stream and each key, the events KeyParser emits for the   *)
(* key over the reports of the stream alternate KeyPressed, KeyReleased,   *)
(* KeyPressed, ... beginning with KeyPressed: the events of a parse extend *)
(* the alternation of the events of the earlier reports of its stream; the *)
(* keys last reported pressed by a stream are the keys of its pressed set; *)
(* and a report identical to the previous report of its stream emits no    *)
(* event.                                                                  *)
C31_PerStreamAlternation ==
    /\ stream_log.standard.last_pressed = pressed_keys
    /\ stream_log.rollover.last_pressed = pressed_rollover_keys
    /\ stream_log.media.last_pressed = pressed_media_keys
    /\ Parsed =>
          /\ Alternates(parsed.events, parsed.last_pressed)
          /\ parsed.previous = <<parsed.packet.buf>> => parsed.events = <<>>

\* the rollover stream repeats its report with A held, while the standard
\* stream holds A too: no event
C31_Witness ==
    /\ parsed.old_state = "rollover"
    /\ parsed.previous = <<parsed.packet.buf>>
    /\ parsed.state = {Key_Standard(4)}
    /\ parsed.last_pressed = {Key_Standard(4)}
    /\ pressed_keys = {Key_Standard(4)}
    /\ parsed.events = <<>>

----------------------------------------------------------------------------
\* the acquire reattached the kernel driver of an interface
Reattached(iface) ==
    \E n \in 1..Len(teardown.acquire) :
        /\ teardown.acquire[n].op = "attach_kernel_driver"
        /\ teardown.acquire[n].iface = iface
        /\ teardown.acquire[n].ok

(* C32: an acquire that returns an error after it detached the kernel      *)
(* driver of interface 0 or 1 has reattached that driver before it         *)
(* returns.                                                                *)
C32_FailedAcquireReattaches ==
    teardown.phase = "failed" =>
        \A i \in {0, 1} : Detached(i) => Reattached(i)

\* kernel drivers on both interfaces, both detached; claim_interface(0)
\* fails and the acquire returns the error, its last call being the claim
C32_Witness ==
    /\ teardown.phase = "failed"
    /\ teardown.active = <<"yes", "yes">>
    /\ teardown.res = "Io"
    /\ Ops(teardown.acquire)
         = <<<<"detach_kernel_driver", 0>>, <<"detach_kernel_driver", 1>>,
             <<"claim_interface", 0>>>>
    /\ teardown.acquire[1].ok
    /\ teardown.acquire[2].ok
    /\ ~teardown.acquire[3].ok
    /\ teardown.drop = <<>>

============================================================================
